---- MODULE Spec2Model ----
(***************************************************************************)
(* Model of src/bmesh_operations/capsule_generation.py and of the modal    *)
(* operators of src/collider_shapes and src/operators that call it.        *)
(*                                                                         *)
(* create_capsule_data is modelled statement block by statement block: the *)
(* variable frame is the activation record of one call (its locals, the    *)
(* six buffers it fills and its position pc), args are the arguments of    *)
(* the call in progress and result is the dictionary it returned.          *)
(* calculate_radius_height is modelled the same way in fit_args, fit and   *)
(* fit_result.  The operators are modelled handler by handler in self and  *)
(* context (see the section on the modal operators).                       *)
(*                                                                         *)
(* Numbers.  Python floats are modelled as exact rationals <<n, d>> (d > 0,*)
(* lowest terms).  A coordinate that involves sin/cos is kept symbolic: a  *)
(* scalar [k, a, t] stands for k + a * t, with k and a rationals and t the *)
(* trigonometric factor ("sin"/"cos" of phi = ip*pi/lp times "sin"/"cos"   *)
(* of theta = jt*tau/lt).  Buffers are functions over 0 .. len-1, so every *)
(* index of the model is the index of the source.                          *)
(***************************************************************************)
EXTENDS Integers, Sequences, FiniteSets, TLC

VARIABLES args, frame, result, fit_args, fit, fit_result, self, context

vars == <<args, frame, result, fit_args, fit, fit_result, self, context>>
builder_vars == <<args, frame, result>>
fitter_vars == <<fit_args, fit, fit_result>>
operator_vars == <<self, context>>

----------------------------------------------------------------------------
(* Bounds of the model: the largest raw arguments a call is given.         *)
MaxLons == 4
MaxLats == 6
MaxRings == 2

----------------------------------------------------------------------------
(* Exact rationals.                                                        *)
Abs(n) == IF n < 0 THEN -n ELSE n

RECURSIVE GCD(_, _)
GCD(a, b) == IF b = 0 THEN a ELSE GCD(b, a % b)

Rat(n, d) ==
    LET s == IF d < 0 THEN -1 ELSE 1
        g == GCD(Abs(n), Abs(d))
    IN  IF n = 0 THEN <<0, 1>> ELSE <<(s * n) \div g, (s * d) \div g>>

RInt(n) == <<n, 1>>
\* Denominators are combined by their least common multiple and products
\* are cancelled crosswise first, which keeps the intermediate integers small.
RAdd(p, q) ==
    LET g == GCD(p[2], q[2])
    IN  Rat(p[1] * (q[2] \div g) + q[1] * (p[2] \div g), (p[2] \div g) * q[2])
RNeg(p) == <<-p[1], p[2]>>
RSub(p, q) == RAdd(p, RNeg(q))
RMul(p, q) ==
    LET g1 == GCD(Abs(p[1]), q[2])
        g2 == GCD(Abs(q[1]), p[2])
    IN  Rat((p[1] \div g1) * (q[1] \div g2), (p[2] \div g2) * (q[2] \div g1))
RInv(q) == IF q[1] < 0 THEN <<-q[2], -q[1]>> ELSE <<q[2], q[1]>>
RDiv(p, q) == RMul(p, RInv(q))
RLess(p, q) == p[1] * q[2] < q[1] * p[2]
\* Python's max(a, b): b only when b > a.
RMax(a, b) == IF RLess(a, b) THEN b ELSE a
IMax(a, b) == IF b > a THEN b ELSE a

----------------------------------------------------------------------------
(* Symbolic scalars k + a * t.                                             *)
NoTrig == [fp |-> "one", ip |-> 0, lp |-> 1, ft |-> "one", jt |-> 0, lt |-> 1]
MixedTrig == [fp |-> "mix", ip |-> 0, lp |-> 1, ft |-> "mix", jt |-> 0, lt |-> 1]

Scalar(k, a, t) == [k |-> k, a |-> a, t |-> IF a = <<0, 1>> THEN NoTrig ELSE t]
Const(k) == Scalar(k, <<0, 1>>, NoTrig)
\* r * s for a rational r
SScale(s, r) == Scalar(RMul(s.k, r), RMul(s.a, r), s.t)
SAdd(s1, s2) ==
    Scalar(RAdd(s1.k, s2.k), RAdd(s1.a, s2.a),
           IF s1.a = <<0, 1>> THEN s2.t
           ELSE IF s2.a = <<0, 1>> \/ s1.t = s2.t THEN s1.t
           ELSE MixedTrig)

\* cos(theta_j), sin(theta_j) with theta_j = j * tau / lons  (lines 265-267)
CosTheta(j, lons) == [fp |-> "one", ip |-> 0, lp |-> 1, ft |-> "cos", jt |-> j, lt |-> lons]
SinTheta(j, lons) == [fp |-> "one", ip |-> 0, lp |-> 1, ft |-> "sin", jt |-> j, lt |-> lons]
\* fp(phi) * ft(theta) with phi = ip * pi / lats
Trig2(fp, ip, lats, th) == [th EXCEPT !.fp = fp, !.ip = ip, !.lp = lats]
TrigPhi(fp, ip, lats) == [fp |-> fp, ip |-> ip, lp |-> lats, ft |-> "one", jt |-> 0, lt |-> 1]

Zero == Const(<<0, 1>>)
One == Const(<<1, 1>>)

----------------------------------------------------------------------------
(* Arguments a call may be given, in range and below the minimums: every   *)
(* segment count up to the bounds with the default depth, radius and UV    *)
(* profile of the signature (line 153), and every depth, radius and UV     *)
(* profile with the small segment counts.                                  *)
Longitudes == 2 .. MaxLons
Latitudes == 1 .. MaxLats
RingCounts == -1 .. MaxRings
Depths == {<<0, 1>>, <<1, 1>>, <<3, 1>>}
Radii == {<<-1, 2>>, <<1, 2>>, <<2, 1>>}
UvProfiles == {"FIXED", "ASPECT", "UNIFORM"}

SegmentArguments ==
    [longitudes : Longitudes, latitudes : Latitudes, rings : RingCounts,
     depth : {<<1, 1>>}, radius : {<<1, 2>>}, uv_profile : {"FIXED"}]
SizeArguments ==
    [longitudes : {2, 4}, latitudes : {2, 3}, rings : {-1, 1},
     depth : Depths, radius : Radii, uv_profile : UvProfiles]
Arguments == SegmentArguments \cup SizeArguments

----------------------------------------------------------------------------
(* create_capsule_data, lines 170-179: validate arguments.                 *)
MinRadius == <<1, 10000>>
MinDepth == <<2, 10000>>

verif_rad_of(radius) == RMax(MinRadius, radius)
\* Variant clamping the depth at 0.
verif_depth_nonnegative(depth) == RMax(<<0, 1>>, depth)
verif_depth_of(depth) == RMax(MinDepth, depth)
verif_rings_of(rings) == IMax(0, rings)
\* Variant without the minimum of three longitudes.
verif_lons_of_no_min(longitudes) == longitudes
verif_lons_of(longitudes) == IMax(3, longitudes)
\* Variant rounding an odd latitude count down instead of up.
verif_lats_of_round_down(latitudes) ==
    LET verif_lats == IMax(2, latitudes)
    IN  IF (verif_lats % 2) # 0 THEN verif_lats - 1 ELSE verif_lats
verif_lats_of(latitudes) ==
    LET verif_lats == IMax(2, latitudes)
    IN  IF (verif_lats % 2) # 0 THEN verif_lats + 1 ELSE verif_lats

(* Lines 181-191: preliminary calculations, on a frame f.                  *)
calc_middle(f) == f.verif_rings > 0
half_lats(f) == f.verif_lats \div 2
half_lats_n1(f) == half_lats(f) - 1
half_lats_n2(f) == half_lats(f) - 2
verif_rings_p1(f) == f.verif_rings + 1
verif_lons_p1(f) == f.verif_lons + 1
v_lons_half_lat_n1(f) == half_lats_n1(f) * f.verif_lons
v_lons_v_sections_p1(f) == verif_rings_p1(f) * f.verif_lons
half_depth(f) == RMul(f.verif_depth, <<1, 2>>)
\* Variant leaving the cap's radius out of the summit.
summit_no_radius(f) == half_depth(f)
summit(f) == RAdd(half_depth(f), f.verif_rad)

(* Lines 193-200: coordinate index offsets.                                *)
idx_v_n_equator(f) == verif_lons_p1(f) + f.verif_lons * half_lats_n2(f)
idx_v_cyl(f) == idx_v_n_equator(f) + f.verif_lons
\* Variant ignoring the mid rings.
idx_v_s_equator_no_middle(f) == idx_v_cyl(f)
idx_v_s_equator(f) ==
    IF calc_middle(f) THEN idx_v_cyl(f) + f.verif_lons * f.verif_rings
    ELSE idx_v_cyl(f)
\* Variant starting the south hemisphere on the south equator's row.
idx_v_south_at_equator(f) == idx_v_s_equator(f)
idx_v_south(f) == idx_v_s_equator(f) + f.verif_lons
idx_v_south_cap(f) == idx_v_south(f) + f.verif_lons * half_lats_n2(f)
idx_v_south_pole(f) == idx_v_south_cap(f) + f.verif_lons

(* Lines 202-209: texture coordinate index offsets.                        *)
idx_vt_n_equator(f) == f.verif_lons + verif_lons_p1(f) * half_lats_n1(f)
idx_vt_cyl(f) == idx_vt_n_equator(f) + verif_lons_p1(f)
idx_vt_s_equator(f) ==
    IF calc_middle(f) THEN idx_vt_cyl(f) + verif_lons_p1(f) * f.verif_rings
    ELSE idx_vt_cyl(f)
idx_vt_s_hemi(f) == idx_vt_s_equator(f) + verif_lons_p1(f)
idx_vt_s_polar(f) == idx_vt_s_hemi(f) + verif_lons_p1(f) * half_lats_n2(f)
\* Variant counting verif_lons columns in the last south row.
idx_vt_s_cap_lons(f) == idx_vt_s_polar(f) + f.verif_lons
idx_vt_s_cap(f) == idx_vt_s_polar(f) + verif_lons_p1(f)

(* Lines 211-214: normal index offsets.                                    *)
idx_vn_south(f) == idx_v_n_equator(f) + f.verif_lons
idx_vn_south_cap(f) == idx_vn_south(f) + f.verif_lons * half_lats_n2(f)
idx_vn_south_pole(f) == idx_vn_south_cap(f) + f.verif_lons

(* Lines 216-219: face index offsets.                                      *)
idx_fs_cyl(f) == f.verif_lons + v_lons_half_lat_n1(f)
\* Variant counting verif_rings bands instead of verif_rings + 1.
idx_fs_south_equat_rings(f) == idx_fs_cyl(f) + f.verif_rings * f.verif_lons
idx_fs_south_equat(f) == idx_fs_cyl(f) + v_lons_v_sections_p1(f)
idx_fs_south_hemi(f) == idx_fs_south_equat(f) + v_lons_half_lat_n1(f)

(* Lines 221-225: list lengths.                                            *)
len_vs(f) == idx_v_south_pole(f) + 1
len_vts(f) == idx_vt_s_cap(f) + f.verif_lons
len_vns(f) == idx_vn_south_pole(f) + f.verif_lons
len_indices(f) == idx_fs_south_hemi(f) + f.verif_lons

----------------------------------------------------------------------------
(* The six buffers.  A list assignment buf[idx] = val: Python wraps a      *)
(* negative index and raises IndexError outside -len .. len-1.  w counts   *)
(* the assignments each slot has received since its allocation.            *)
Buffers == {"vs", "vts", "vns", "v_indices", "vt_indices", "vn_indices"}

Put(f, b, idx, val) ==
    LET n == Cardinality(DOMAIN f[b])
        k == IF idx < 0 THEN idx + n ELSE idx
    IN  IF f.raised THEN f
        ELSE IF k \in DOMAIN f[b]
        THEN [f EXCEPT ![b][k] = val, !.w[b][k] = @ + 1]
        ELSE [f EXCEPT !.raised = TRUE]

RECURSIVE PutAll(_, _)
PutAll(f, ws) ==
    IF Len(ws) = 0 THEN f
    ELSE PutAll(Put(f, ws[1][1], ws[1][2], ws[1][3]), Tail(ws))

\* [x] * n
Repeat(x, n) == [k \in 0 .. n - 1 |-> x]

(* Lines 153-179: the frame of a call with arguments a.                    *)
CallFrame(a) ==
    [pc |-> "alloc", raised |-> FALSE,
     verif_rad |-> verif_rad_of(a.radius),
     verif_depth |-> verif_depth_of(a.depth),
     verif_rings |-> verif_rings_of(a.rings),
     verif_lons |-> verif_lons_of(a.longitudes),
     verif_lats |-> verif_lats_of(a.latitudes),
     uv_profile |-> a.uv_profile,
     vs |-> <<>>, vts |-> <<>>, vns |-> <<>>,
     v_indices |-> <<>>, vt_indices |-> <<>>, vn_indices |-> <<>>,
     w |-> [b \in Buffers |-> <<>>],
     sin_cos_theta_cache |-> <<>>, s_tex_cache |-> <<>>,
     vt_aspect_south |-> <<0, 1>>, vt_aspect_north |-> <<0, 1>>,
     i |-> 0, j |-> 0, m |-> 0,
     v_hemi_offset_north |-> 0, v_hemi_offset_south |-> 0,
     vt_hemi_offset_north |-> 0, vt_hemi_offset_south |-> 0,
     vn_hemi_offset_south |-> 0,
     f_hemi_offset_north |-> 0, f_hemi_offset_south |-> 0,
     v_cyl_offset |-> 0, vt_cyl_offset |-> 0, f_cyl_offset |-> 0]

(* Lines 227-236: allocate mesh data and index arrays.                     *)
AllocateBody(f) ==
    [f EXCEPT
        !.vs = Repeat(<<Zero, Zero, Zero>>, len_vs(f)),
        !.vts = Repeat(<<<<1, 2>>, <<1, 2>>>>, len_vts(f)),
        !.vns = Repeat(<<Zero, Zero, One>>, len_vns(f)),
        !.v_indices = Repeat(<<0, 0, 0>>, len_indices(f)),
        !.vt_indices = Repeat(<<0, 0, 0>>, len_indices(f)),
        !.vn_indices = Repeat(<<0, 0, 0>>, len_indices(f)),
        !.w = [vs |-> Repeat(0, len_vs(f)),
               vts |-> Repeat(0, len_vts(f)),
               vns |-> Repeat(0, len_vns(f)),
               v_indices |-> Repeat(0, len_indices(f)),
               vt_indices |-> Repeat(0, len_indices(f)),
               vn_indices |-> Repeat(0, len_indices(f))],
        !.pc = "poles"]

(* Lines 243-258: set poles, allocate the sin/cos cache.                   *)
north_pole(f) == <<Zero, Zero, Const(summit(f))>>
south_pole(f) == <<Zero, Zero, Const(RNeg(summit(f)))>>

SetPolesBody(f) ==
    LET g == PutAll(f, <<
            <<"vs", 0, north_pole(f)>>,
            <<"vs", idx_v_south_pole(f), south_pole(f)>>,
            <<"vns", 0, <<Zero, Zero, One>>>>,
            <<"vns", idx_vn_south_pole(f), <<Zero, Zero, Const(<<-1, 1>>)>>>> >>)
    IN  [g EXCEPT
            !.sin_cos_theta_cache = Repeat(<<NoTrig, NoTrig>>, f.verif_lons),
            !.j = 0, !.pc = "fan"]

(* Lines 260-305: polar texture coordinates, equators, triangle fans.      *)
j_next_vt(j) == j + 1
\* Variant that does not wrap the last column back to column 0.
j_next_v_nowrap(f, j) == j_next_vt(j)
j_next_v(f, j) == j_next_vt(j) % f.verif_lons

north_fan_v(f, j) == <<0, j_next_vt(j), 1 + j_next_v(f, j)>>
north_fan_vt(f, j) == <<j, f.verif_lons + j, f.verif_lons + j_next_vt(j)>>
north_fan_vn(f, j) == <<0, j_next_vt(j), 1 + j_next_v(f, j)>>
\* Variant winding the south fan like the north fan.
south_fan_v_reversed(f, j) ==
    <<idx_v_south_pole(f), idx_v_south_cap(f) + j, idx_v_south_cap(f) + j_next_v(f, j)>>
south_fan_v(f, j) ==
    <<idx_v_south_pole(f), idx_v_south_cap(f) + j_next_v(f, j), idx_v_south_cap(f) + j>>
south_fan_vt(f, j) ==
    <<idx_vt_s_cap(f) + j, idx_vt_s_polar(f) + j_next_vt(j), idx_vt_s_polar(f) + j>>
south_fan_vn(f, j) ==
    <<idx_vn_south_pole(f), idx_vn_south_cap(f) + j_next_v(f, j), idx_vn_south_cap(f) + j>>

\* Variant storing the equatorial x and y, which carry the radius.
equatorial_normal_scaled(f, j) ==
    <<Scalar(<<0, 1>>, f.verif_rad, CosTheta(j, f.verif_lons)),
      Scalar(<<0, 1>>, f.verif_rad, SinTheta(j, f.verif_lons)), Zero>>
\* Lines 283-284: equatorial normals.
equatorial_normal(f, j) ==
    <<Scalar(<<0, 1>>, <<1, 1>>, CosTheta(j, f.verif_lons)),
      Scalar(<<0, 1>>, <<1, 1>>, SinTheta(j, f.verif_lons)), Zero>>
FanBody(f) ==
    LET j == f.j
        L == f.verif_lons
        sin_theta == SinTheta(j, L)
        cos_theta == CosTheta(j, L)
        s_tex == Rat(2 * j + 1, 2 * L)
        x == Scalar(<<0, 1>>, f.verif_rad, cos_theta)
        y == Scalar(<<0, 1>>, f.verif_rad, sin_theta)
        g == PutAll(f, <<
            <<"vts", j, <<s_tex, <<1, 1>>>>>>,
            <<"vts", idx_vt_s_cap(f) + j, <<s_tex, <<0, 1>>>>>>,
            <<"vs", idx_v_n_equator(f) + j, <<x, y, Const(half_depth(f))>>>>,
            <<"vs", idx_v_s_equator(f) + j, <<x, y, Const(RNeg(half_depth(f)))>>>>,
            <<"vns", idx_v_n_equator(f) + j, equatorial_normal(f, j)>>,
            <<"v_indices", j, north_fan_v(f, j)>>,
            <<"vt_indices", j, north_fan_vt(f, j)>>,
            <<"vn_indices", j, north_fan_vn(f, j)>>,
            <<"v_indices", idx_fs_south_hemi(f) + j, south_fan_v(f, j)>>,
            <<"vt_indices", idx_fs_south_hemi(f) + j, south_fan_vt(f, j)>>,
            <<"vn_indices", idx_fs_south_hemi(f) + j, south_fan_vn(f, j)>> >>)
    IN  [g EXCEPT
            !.sin_cos_theta_cache[j] = <<sin_theta, cos_theta>>,
            !.j = IF j + 1 < L THEN j + 1 ELSE 0,
            !.pc = IF j + 1 < L THEN "fan" ELSE "aspect"]

(* Lines 307-316: the equators' V, by UV profile.                          *)
\* Variant measuring the aspect against depth + radius.
vt_aspect_south_one_cap(f) ==
    IF f.uv_profile = "ASPECT"
    THEN RDiv(f.verif_rad, RAdd(f.verif_depth, f.verif_rad))
    ELSE IF f.uv_profile = "UNIFORM"
    THEN Rat(half_lats(f), verif_rings_p1(f) + f.verif_lats)
    ELSE <<1, 3>>
vt_aspect_south_of(f) ==
    IF f.uv_profile = "ASPECT"
    THEN RDiv(f.verif_rad, RAdd(f.verif_depth, RMul(<<2, 1>>, f.verif_rad)))
    ELSE IF f.uv_profile = "UNIFORM"
    THEN Rat(half_lats(f), verif_rings_p1(f) + f.verif_lats)
    ELSE <<1, 3>>

AspectBody(f) ==
    [f EXCEPT
        !.s_tex_cache = Repeat(<<1, 2>>, verif_lons_p1(f)),
        !.vt_aspect_south = vt_aspect_south_of(f),
        !.vt_aspect_north = RSub(<<1, 1>>, vt_aspect_south_of(f)),
        !.j = 0, !.pc = "equator_uv"]

(* Lines 318-322: equatorial texture coordinates.                          *)
EquatorUVBody(f) ==
    LET j == f.j
        s_tex == Rat(j, f.verif_lons)
        g == PutAll(f, <<
            <<"vts", idx_vt_n_equator(f) + j, <<s_tex, f.vt_aspect_north>>>>,
            <<"vts", idx_vt_s_equator(f) + j, <<s_tex, f.vt_aspect_south>>>> >>)
    IN  [g EXCEPT
            !.s_tex_cache[j] = s_tex,
            !.j = IF j + 1 < verif_lons_p1(f) THEN j + 1 ELSE 0,
            !.pc = IF j + 1 < verif_lons_p1(f) THEN "equator_uv" ELSE "hemi_init"]

----------------------------------------------------------------------------
(* Lines 324-334: running offsets of the hemisphere loop.  The loop over   *)
(* hemi_range (line 336) runs half_lats_n1 times, possibly never.          *)
HemiInitBody(f) ==
    [f EXCEPT
        !.v_hemi_offset_north = 1,
        !.v_hemi_offset_south = idx_v_south(f),
        !.vt_hemi_offset_north = f.verif_lons,
        !.vt_hemi_offset_south = idx_vt_s_hemi(f),
        !.vn_hemi_offset_south = idx_vn_south(f),
        !.f_hemi_offset_north = f.verif_lons,
        !.f_hemi_offset_south = idx_fs_south_equat(f),
        !.i = 0, !.j = 0,
        !.pc = IF 0 < half_lats_n1(f) THEN "hemi_v" ELSE "mid_head"]

(* Lines 357-379: per-latitude index offsets.                              *)
i_v_lons(f) == f.i * f.verif_lons
v_curr_lat_n(f) == 1 + i_v_lons(f)
v_next_lat_n(f) == v_curr_lat_n(f) + f.verif_lons
vt_curr_lat_n(f) == f.verif_lons + f.i * verif_lons_p1(f)
vt_next_lat_n(f) == vt_curr_lat_n(f) + verif_lons_p1(f)
vn_curr_lat_n(f) == 1 + i_v_lons(f)
vn_next_lat_n(f) == vn_curr_lat_n(f) + f.verif_lons
v_curr_lat_s(f) == idx_v_s_equator(f) + i_v_lons(f)
v_next_lat_s(f) == v_curr_lat_s(f) + f.verif_lons
vt_curr_lat_s(f) == idx_vt_s_equator(f) + f.i * verif_lons_p1(f)
vt_next_lat_s(f) == vt_curr_lat_s(f) + verif_lons_p1(f)
vn_curr_lat_s(f) == idx_v_n_equator(f) + i_v_lons(f)
vn_next_lat_s(f) == vn_curr_lat_s(f) + f.verif_lons

\* A quad between rows curr and next, columns j and jn (lines 416-456, 528-540).
quad(curr, next, j, jn) == <<curr + j, next + j, next + jn, curr + jn>>

(* Lines 337-355, 382-460: coordinates, normals and quads of latitude i.   *)
(* phi = (i + 1) * pi / verif_lats; sin_phi_north = -cos(phi) and          *)
(* cos_phi_north = sin(phi).                                               *)
HemiVBody(f) ==
    LET j == f.j
        L == f.verif_lons
        ip1 == f.i + 1
        th == f.sin_cos_theta_cache[j]
        sin_theta == th[1]
        cos_theta == th[2]
        rad == f.verif_rad
        sinphi(t) == Trig2("sin", ip1, f.verif_lats, t)
        cosphi(t) == Trig2("cos", ip1, f.verif_lats, t)
        north_v == <<Scalar(<<0, 1>>, rad, sinphi(cos_theta)),
                     Scalar(<<0, 1>>, rad, sinphi(sin_theta)),
                     Scalar(half_depth(f), rad, cosphi(NoTrig))>>
        south_v == <<Scalar(<<0, 1>>, rad, cosphi(cos_theta)),
                     Scalar(<<0, 1>>, rad, cosphi(sin_theta)),
                     Scalar(RNeg(half_depth(f)), RNeg(rad), sinphi(NoTrig))>>
        north_n == <<Scalar(<<0, 1>>, <<1, 1>>, sinphi(cos_theta)),
                     Scalar(<<0, 1>>, <<1, 1>>, sinphi(sin_theta)),
                     Scalar(<<0, 1>>, <<1, 1>>, cosphi(NoTrig))>>
        south_n == <<Scalar(<<0, 1>>, <<1, 1>>, cosphi(cos_theta)),
                     Scalar(<<0, 1>>, <<1, 1>>, cosphi(sin_theta)),
                     Scalar(<<0, 1>>, <<-1, 1>>, sinphi(NoTrig))>>
        jv == j_next_v(f, j)
        jt == j_next_vt(j)
        g == PutAll(f, <<
            <<"vs", f.v_hemi_offset_north, north_v>>,
            <<"vs", f.v_hemi_offset_south, south_v>>,
            <<"vns", f.v_hemi_offset_north, north_n>>,
            <<"vns", f.vn_hemi_offset_south, south_n>>,
            <<"v_indices", f.f_hemi_offset_north, quad(v_curr_lat_n(f), v_next_lat_n(f), j, jv)>>,
            <<"vt_indices", f.f_hemi_offset_north, quad(vt_curr_lat_n(f), vt_next_lat_n(f), j, jt)>>,
            <<"vn_indices", f.f_hemi_offset_north, quad(vn_curr_lat_n(f), vn_next_lat_n(f), j, jv)>>,
            <<"v_indices", f.f_hemi_offset_south, quad(v_curr_lat_s(f), v_next_lat_s(f), j, jv)>>,
            <<"vt_indices", f.f_hemi_offset_south, quad(vt_curr_lat_s(f), vt_next_lat_s(f), j, jt)>>,
            <<"vn_indices", f.f_hemi_offset_south, quad(vn_curr_lat_s(f), vn_next_lat_s(f), j, jv)>> >>)
    IN  [g EXCEPT
            !.v_hemi_offset_north = @ + 1,
            !.v_hemi_offset_south = @ + 1,
            !.vn_hemi_offset_south = @ + 1,
            !.f_hemi_offset_north = @ + 1,
            !.f_hemi_offset_south = @ + 1,
            !.j = IF j + 1 < L THEN j + 1 ELSE 0,
            !.pc = IF j + 1 < L THEN "hemi_v" ELSE "hemi_t"]

(* Lines 462-475: texture coordinates of latitude i.                       *)
t_tex_fac(f) == Rat(f.i + 1, half_lats(f))
t_tex_north(f) ==
    RAdd(RSub(<<1, 1>>, t_tex_fac(f)), RMul(t_tex_fac(f), f.vt_aspect_north))
\* Variant interpolating the south hemisphere from the pole outwards.
t_tex_south_from_pole(f) == RMul(f.vt_aspect_south, t_tex_fac(f))
t_tex_south(f) == RMul(f.vt_aspect_south, RSub(<<1, 1>>, t_tex_fac(f)))

HemiTBody(f) ==
    LET j == f.j
        s_tex == f.s_tex_cache[j]
        last == ~(j + 1 < verif_lons_p1(f))
        g == PutAll(f, <<
            <<"vts", f.vt_hemi_offset_north, <<s_tex, t_tex_north(f)>>>>,
            <<"vts", f.vt_hemi_offset_south, <<s_tex, t_tex_south(f)>>>> >>)
    IN  [g EXCEPT
            !.vt_hemi_offset_north = @ + 1,
            !.vt_hemi_offset_south = @ + 1,
            !.j = IF last THEN 0 ELSE j + 1,
            !.i = IF last THEN @ + 1 ELSE @,
            !.pc = IF ~last THEN "hemi_t"
                   ELSE IF f.i + 1 < half_lats_n1(f) THEN "hemi_v" ELSE "mid_head"]

----------------------------------------------------------------------------
(* Lines 477-484: rings of the cylinder, only when calc_middle.            *)
MidHeadBody(f) ==
    IF calc_middle(f)
    THEN [f EXCEPT !.v_cyl_offset = idx_v_cyl(f), !.vt_cyl_offset = idx_vt_cyl(f),
                   !.m = 1, !.j = 0,
                   !.pc = IF 1 < verif_rings_p1(f) THEN "mid_v" ELSE "cyl_init"]
    ELSE [f EXCEPT !.pc = "cyl_init"]

(* Lines 488-490.                                                          *)
\* Variant stepping by 1/verif_rings, which reaches the south equator.
fac_over_rings(f) == Rat(f.m, f.verif_rings)
fac(f) == Rat(f.m, verif_rings_p1(f))
cmpl_fac(f) == RSub(<<1, 1>>, fac(f))
t_tex(f) == RAdd(RMul(f.vt_aspect_north, cmpl_fac(f)), RMul(f.vt_aspect_south, fac(f)))

\* a * cmpl_fac + b * fac
lerp(f, a, b) == SAdd(SScale(a, cmpl_fac(f)), SScale(b, fac(f)))

(* Lines 493-506: coordinates of mid ring m.                               *)
MidVBody(f) ==
    LET j == f.j
        v_equator_north == f.vs[idx_v_n_equator(f) + j]
        v_equator_south == f.vs[idx_v_s_equator(f) + j]
        g == Put(f, "vs", f.v_cyl_offset,
                 <<lerp(f, v_equator_north[1], v_equator_south[1]),
                   lerp(f, v_equator_north[2], v_equator_south[2]),
                   lerp(f, v_equator_north[3], v_equator_south[3])>>)
    IN  [g EXCEPT
            !.v_cyl_offset = @ + 1,
            !.j = IF j + 1 < f.verif_lons THEN j + 1 ELSE 0,
            !.pc = IF j + 1 < f.verif_lons THEN "mid_v" ELSE "mid_t"]

(* Lines 508-512: texture coordinates of mid ring m.                       *)
MidTBody(f) ==
    LET j == f.j
        last == ~(j + 1 < verif_lons_p1(f))
        g == Put(f, "vts", f.vt_cyl_offset, <<f.s_tex_cache[j], t_tex(f)>>)
    IN  [g EXCEPT
            !.vt_cyl_offset = @ + 1,
            !.j = IF last THEN 0 ELSE j + 1,
            !.m = IF last THEN @ + 1 ELSE @,
            !.pc = IF ~last THEN "mid_t"
                   ELSE IF f.m + 1 < verif_rings_p1(f) THEN "mid_v" ELSE "cyl_init"]

----------------------------------------------------------------------------
(* Lines 514-516: the cylinder's bands, m = 0 .. verif_rings.              *)
CylInitBody(f) ==
    [f EXCEPT !.f_cyl_offset = idx_fs_cyl(f), !.m = 0, !.j = 0,
              !.pc = IF 0 < verif_rings_p1(f) THEN "cyl_f" ELSE "ret"]

(* Lines 518-522.                                                          *)
v_curr_ring(f) == idx_v_n_equator(f) + f.m * f.verif_lons
v_next_ring(f) == v_curr_ring(f) + f.verif_lons
vt_curr_ring(f) == idx_vt_n_equator(f) + f.m * verif_lons_p1(f)
vt_next_ring(f) == vt_curr_ring(f) + verif_lons_p1(f)

cyl_quad_v(f, j) == quad(v_curr_ring(f), v_next_ring(f), j, j_next_v(f, j))
\* Variant wrapping the UV column like the vertex column.
cyl_quad_vt_wrapped(f, j) == quad(vt_curr_ring(f), vt_next_ring(f), j, j_next_v(f, j))
cyl_quad_vt(f, j) == quad(vt_curr_ring(f), vt_next_ring(f), j, j_next_vt(j))
\* Variant indexing the normals of a band by ring, like its vertices.
cyl_quad_vn_by_ring(f, j) == quad(v_curr_ring(f), v_next_ring(f), j, j_next_v(f, j))
cyl_quad_vn(f, j) ==
    <<idx_v_n_equator(f) + j, idx_v_n_equator(f) + j,
      idx_v_n_equator(f) + j_next_v(f, j), idx_v_n_equator(f) + j_next_v(f, j)>>

(* Lines 524-549: the quads of band m.                                     *)
CylFBody(f) ==
    LET j == f.j
        last == ~(j + 1 < f.verif_lons)
        g == PutAll(f, <<
            <<"v_indices", f.f_cyl_offset, cyl_quad_v(f, j)>>,
            <<"vt_indices", f.f_cyl_offset, cyl_quad_vt(f, j)>>,
            <<"vn_indices", f.f_cyl_offset, cyl_quad_vn(f, j)>> >>)
    IN  [g EXCEPT
            !.f_cyl_offset = @ + 1,
            !.j = IF last THEN 0 ELSE j + 1,
            !.m = IF last THEN @ + 1 ELSE @,
            !.pc = IF ~last \/ f.m + 1 < verif_rings_p1(f) THEN "cyl_f" ELSE "ret"]

(* Lines 551-557: the returned dictionary.                                 *)
ReturnValue(f) ==
    [vs |-> f.vs, vts |-> f.vts, vns |-> f.vns,
     v_indices |-> f.v_indices, vt_indices |-> f.vt_indices,
     vn_indices |-> f.vn_indices]

----------------------------------------------------------------------------
(* One step of the call in frame f; an IndexError ends the call.           *)
Body(f) ==
    CASE f.pc = "alloc" -> AllocateBody(f)
      [] f.pc = "poles" -> SetPolesBody(f)
      [] f.pc = "fan" -> FanBody(f)
      [] f.pc = "aspect" -> AspectBody(f)
      [] f.pc = "equator_uv" -> EquatorUVBody(f)
      [] f.pc = "hemi_init" -> HemiInitBody(f)
      [] f.pc = "hemi_v" -> HemiVBody(f)
      [] f.pc = "hemi_t" -> HemiTBody(f)
      [] f.pc = "mid_head" -> MidHeadBody(f)
      [] f.pc = "mid_v" -> MidVBody(f)
      [] f.pc = "mid_t" -> MidTBody(f)
      [] f.pc = "cyl_init" -> CylInitBody(f)
      [] f.pc = "cyl_f" -> CylFBody(f)

StepFrame(f) ==
    LET g == Body(f) IN IF g.raised THEN [g EXCEPT !.pc = "raised"] ELSE g

RECURSIVE RunFrame(_)
RunFrame(f) == IF f.pc \in {"ret", "raised"} THEN f ELSE RunFrame(StepFrame(f))

\* The value of create_capsule_data(a): <<dictionary>>, or <<>> when it raised.
create_capsule_data(a) ==
    LET f == RunFrame(CallFrame(a))
    IN  IF f.pc = "ret" THEN <<ReturnValue(f)>> ELSE <<>>

----------------------------------------------------------------------------
IdleFrame == [pc |-> "idle", raised |-> FALSE]

Init ==
    /\ args = <<>>
    /\ frame = IdleFrame
    /\ result = <<>>
    /\ fit_args = <<>>
    /\ fit = [pc |-> "idle"]
    /\ fit_result = <<>>
    /\ self = [status |-> "idle"]
    /\ context = [events |-> 0]

Call ==
    /\ frame.pc = "idle"
    /\ \E a \in Arguments :
        /\ args' = <<a>>
        /\ frame' = CallFrame(a)
    /\ UNCHANGED <<result, fitter_vars, operator_vars>>

At(pc) ==
    /\ frame.pc = pc
    /\ frame' = StepFrame(frame)
    /\ UNCHANGED <<args, result, fitter_vars, operator_vars>>

Allocate == At("alloc")
SetPoles == At("poles")
FanLoop == At("fan")
Aspect == At("aspect")
EquatorUV == At("equator_uv")
HemiInit == At("hemi_init")
HemiV == At("hemi_v")
HemiT == At("hemi_t")
MidHead == At("mid_head")
MidV == At("mid_v")
MidT == At("mid_t")
CylInit == At("cyl_init")
CylF == At("cyl_f")

Return ==
    /\ frame.pc = "ret"
    /\ result' = <<ReturnValue(frame)>>
    /\ frame' = [frame EXCEPT !.pc = "done"]
    /\ UNCHANGED <<args, fitter_vars, operator_vars>>

Next ==
    \/ Call \/ Allocate \/ SetPoles \/ FanLoop \/ Aspect \/ EquatorUV
    \/ HemiInit \/ HemiV \/ HemiT \/ MidHead \/ MidV \/ MidT
    \/ CylInit \/ CylF \/ Return

Spec == Init /\ [][Next]_vars

----------------------------------------------------------------------------
(* Vocabulary of the properties.                                           *)
Returned == frame.pc = "done"
\* The clamped parameters, as the specification documents them.
RoundUpToEven(n) == n + (n % 2)
Clamped(a) ==
    [longitudes |-> IF a.longitudes < 3 THEN 3 ELSE a.longitudes,
     latitudes |-> RoundUpToEven(IF a.latitudes < 2 THEN 2 ELSE a.latitudes),
     rings |-> IF a.rings < 0 THEN 0 ELSE a.rings,
     depth |-> IF RLess(a.depth, <<2, 10000>>) THEN <<2, 10000>> ELSE a.depth,
     radius |-> IF RLess(a.radius, <<1, 10000>>) THEN <<1, 10000>> ELSE a.radius,
     uv_profile |-> a.uv_profile]
P == Clamped(args[1])
Size(buf) == Cardinality(DOMAIN buf)

\* Corner k of face p, the directed edge leaving it and that edge undirected.
Corners(fs) == UNION {{<<p, k>> : k \in 1 .. Len(fs[p])} : p \in DOMAIN fs}
DirEdge(fs, c) == <<fs[c[1]][c[2]], fs[c[1]][(c[2] % Len(fs[c[1]])) + 1]>>
UEdge(fs, c) == {DirEdge(fs, c)[1], DirEdge(fs, c)[2]}
FacesWithEdge(fs, e) == {p \in DOMAIN fs : \E k \in 1 .. Len(fs[p]) : UEdge(fs, <<p, k>>) = e}
Watertight(fs) == \A c \in Corners(fs) : Cardinality(FacesWithEdge(fs, UEdge(fs, c))) = 2

\* C1: for all clamped parameters, every undirected edge of the faces of the
\* returned v_indices lies in exactly two faces.
C1_Watertight == Returned => Watertight(result[1].v_indices)
C1_Witness ==
    /\ Returned /\ P.latitudes = 2 /\ P.rings = 0
    /\ Watertight(result[1].v_indices)

\* C2: winding is consistent: two different corners of the returned v_indices
\* that lie on the same undirected edge traverse it in opposite directions.
ConsistentWinding(fs) ==
    \A c \in Corners(fs) : \A d \in Corners(fs) :
        (c # d /\ UEdge(fs, c) = UEdge(fs, d))
            => DirEdge(fs, d) = <<DirEdge(fs, c)[2], DirEdge(fs, c)[1]>>
C2_ConsistentWinding == Returned => ConsistentWinding(result[1].v_indices)
C2_Witness ==
    /\ Returned /\ P.latitudes >= 4 /\ P.rings >= 1
    /\ \E c \in Corners(result[1].v_indices) : \E d \in Corners(result[1].v_indices) :
          /\ Len(result[1].v_indices[c[1]]) = 3 /\ Len(result[1].v_indices[d[1]]) = 4
          /\ UEdge(result[1].v_indices, c) = UEdge(result[1].v_indices, d)

\* C3: every returned face index is inside its buffer, the vertex indices of
\* a face are pairwise distinct and no two faces have the same vertex set.
InRange(fs, n) == \A p \in DOMAIN fs : \A k \in 1 .. Len(fs[p]) : fs[p][k] \in 0 .. n - 1
DistinctCorners(fs) ==
    \A p \in DOMAIN fs : \A k \in 1 .. Len(fs[p]) : \A l \in 1 .. Len(fs[p]) :
        k # l => fs[p][k] # fs[p][l]
VertexSet(face) == {face[k] : k \in 1 .. Len(face)}
NoDuplicateFaces(fs) ==
    \A p \in DOMAIN fs : \A q \in DOMAIN fs : p # q => VertexSet(fs[p]) # VertexSet(fs[q])
ValidFaces(r) ==
    /\ InRange(r.v_indices, Size(r.vs))
    /\ InRange(r.vt_indices, Size(r.vts))
    /\ InRange(r.vn_indices, Size(r.vns))
    /\ DistinctCorners(r.v_indices)
    /\ NoDuplicateFaces(r.v_indices)
C3_ValidFaces == Returned => ValidFaces(result[1])
C3_Witness == Returned /\ args[1].longitudes < 3 /\ ValidFaces(result[1])

\* C4: the returned vs has 2 + longitudes*(latitudes - 2) + 2*longitudes +
\* rings*longitudes entries (clamped parameters), the north pole first and
\* the south pole last.
VertexCount(q) ==
    2 + q.longitudes * (q.latitudes - 2) + 2 * q.longitudes + q.rings * q.longitudes
PoleZ(q) == RAdd(RMul(q.depth, <<1, 2>>), q.radius)
PolesAtEnds(vs, q) ==
    /\ vs[0] = <<Zero, Zero, Const(PoleZ(q))>>
    /\ vs[Size(vs) - 1] = <<Zero, Zero, Const(RNeg(PoleZ(q)))>>
C4_VertexCount ==
    Returned => /\ Size(result[1].vs) = VertexCount(P)
                /\ PolesAtEnds(result[1].vs, P)
C4_Witness ==
    /\ Returned /\ P.rings >= 1 /\ P.latitudes >= 4
    /\ Size(result[1].vs) = VertexCount(P)

\* C5: the three face lists have longitudes*(latitudes + rings + 1) entries;
\* the first and the last longitudes faces are 3-tuples, all others 4-tuples,
\* in each of the three lists.
FaceCount(q) == q.longitudes * (q.latitudes + q.rings + 1)
FaceShape(fs, q) ==
    /\ Size(fs) = FaceCount(q)
    /\ \A p \in DOMAIN fs :
          Len(fs[p]) = IF p < q.longitudes \/ p >= FaceCount(q) - q.longitudes THEN 3 ELSE 4
C5_FaceLists ==
    Returned => /\ FaceShape(result[1].v_indices, P)
                /\ FaceShape(result[1].vt_indices, P)
                /\ FaceShape(result[1].vn_indices, P)
C5_Witness ==
    /\ Returned /\ P.rings >= 1 /\ P.latitudes >= 4
    /\ FaceShape(result[1].v_indices, P)

\* C6: the returned vts has 2*longitudes + (longitudes + 1)*(latitudes + rings)
\* entries (clamped parameters).
UvCount(q) == 2 * q.longitudes + (q.longitudes + 1) * (q.latitudes + q.rings)
C6_UvCount == Returned => Size(result[1].vts) = UvCount(P)
C6_Witness ==
    /\ Returned /\ P.rings >= 1 /\ P.latitudes >= 4
    /\ Size(result[1].vts) = UvCount(P)

\* C7: the returned vns has 2 + longitudes*(latitudes - 2) + longitudes
\* entries, the south-pole normal is its last entry and every entry is
\* referenced by a face of vn_indices.
NormalCount(q) == 2 + q.longitudes * (q.latitudes - 2) + q.longitudes
Referenced(fs) == UNION {VertexSet(fs[p]) : p \in DOMAIN fs}
C7_NormalCount ==
    Returned => /\ Size(result[1].vns) = NormalCount(P)
                /\ idx_vn_south_pole(frame) = Size(result[1].vns) - 1
                /\ DOMAIN result[1].vns \subseteq Referenced(result[1].vn_indices)

\* C8: the offsets partition vs, vts and the three face lists: no slot is
\* ever assigned twice, and at the return every slot has been assigned once.
Partitioned == {"vs", "vts", "v_indices", "vt_indices", "vn_indices"}
C8_SlotsAssignedOnce ==
    frame.pc # "idle" =>
        \A b \in Partitioned : \A k \in DOMAIN frame.w[b] :
            /\ frame.w[b][k] <= 1
            /\ Returned => frame.w[b][k] = 1
C8_Witness ==
    /\ Returned /\ P.latitudes = 2 /\ P.rings = 0
    /\ \A b \in Partitioned : \A k \in DOMAIN frame.w[b] : frame.w[b][k] = 1

\* C9: no call raises, and the dictionary returned for any arguments is the
\* one returned for the clamped arguments.
C9_ClampedResult ==
    /\ frame.pc # "raised"
    /\ Returned => result = create_capsule_data(P)
C9_Witness ==
    /\ Returned
    /\ args[1].longitudes < 3 /\ args[1].latitudes % 2 = 1 /\ args[1].rings < 0
    /\ RLess(args[1].depth, <<2, 10000>>) /\ RLess(args[1].radius, <<1, 10000>>)
    /\ result = create_capsule_data(P)

\* C10: longitudes=4, latitudes=2, rings=0, depth=1.0, radius=0.5 returns 10
\* vertices and 12 faces, 4 north-fan triangles, then 4 cylinder quads, then
\* 4 south-fan triangles, with the poles at (0, 0, 1) and (0, 0, -1); in
\* general the poles are at (0, 0, +/-(d/2 + r)) for the clamped depth
\* d = max(0.0002, depth) and the clamped radius r = max(0.0001, radius).
IsScenario(a) ==
    /\ a.longitudes = 4 /\ a.latitudes = 2 /\ a.rings = 0
    /\ a.depth = <<1, 1>> /\ a.radius = <<1, 2>>
ScenarioResult(r) ==
    /\ Size(r.vs) = 10
    /\ Size(r.v_indices) = 12
    /\ \A p \in 0 .. 3 : Len(r.v_indices[p]) = 3 /\ r.v_indices[p][1] = 0
    /\ \A p \in 4 .. 7 : Len(r.v_indices[p]) = 4 /\ VertexSet(r.v_indices[p]) \subseteq 1 .. 8
    /\ \A p \in 8 .. 11 : Len(r.v_indices[p]) = 3 /\ r.v_indices[p][1] = 9
    /\ r.vs[0] = <<Zero, Zero, Const(<<1, 1>>)>>
    /\ r.vs[9] = <<Zero, Zero, Const(<<-1, 1>>)>>
C10_Scenario ==
    Returned => /\ IsScenario(args[1]) => ScenarioResult(result[1])
                /\ PolesAtEnds(result[1].vs, P)
\* C10 as stated: the poles are at (0, 0, +/-(depth/2 + radius)) of the depth
\* and radius the call was given.
C10_PolesOfGivenSize ==
    Returned => /\ IsScenario(args[1]) => ScenarioResult(result[1])
                /\ PolesAtEnds(result[1].vs, args[1])
C10_Witness == Returned /\ IsScenario(args[1]) /\ ScenarioResult(result[1])


\* Rows of vs between the poles, counted from the north pole: row r holds
\* the vertices 1 + r*longitudes + j.  Row latitudes/2 - 1 is the north
\* equator; the cylinder's rows are m = 0 .. rings + 1 below it.
RowVertex(q, r, j) == 1 + r * q.longitudes + j
CylVertex(q, m, j) == RowVertex(q, (q.latitudes \div 2) - 1 + m, j)
CylVertices(q) ==
    {CylVertex(q, m, j) : m \in 0 .. q.rings + 1, j \in 0 .. q.longitudes - 1}
EquatorX(q, j) == Scalar(<<0, 1>>, q.radius, CosTheta(j, q.longitudes))
EquatorY(q, j) == Scalar(<<0, 1>>, q.radius, SinTheta(j, q.longitudes))
RingZ(q, m) ==
    RSub(RMul(q.depth, <<1, 2>>), RMul(RInt(m), RDiv(q.depth, RInt(q.rings + 1))))
OnCylinder(v) == v[1].t.fp = "one" /\ v[1].t.ft = "cos"
BandQuad(q, m, j) ==
    {CylVertex(q, m, j), CylVertex(q, m + 1, j),
     CylVertex(q, m + 1, (j + 1) % q.longitudes), CylVertex(q, m, (j + 1) % q.longitudes)}

\* C11: the cylinder is rings + 1 bands of longitudes quads, band m joining
\* row m to row m + 1 (row 0 the north equator, row rings + 1 the south
\* equator); the rows strictly between are exactly rings mid rings, mid ring
\* m at the equator's x, y and at z = depth/2 - m*depth/(rings + 1).
CylinderBody(r, q) ==
    /\ \A m \in 0 .. q.rings + 1 : \A j \in 0 .. q.longitudes - 1 :
          r.vs[CylVertex(q, m, j)] = <<EquatorX(q, j), EquatorY(q, j), Const(RingZ(q, m))>>
    /\ {v \in DOMAIN r.vs : OnCylinder(r.vs[v])} = CylVertices(q)
    /\ LET body == {p \in DOMAIN r.v_indices : VertexSet(r.v_indices[p]) \subseteq CylVertices(q)}
       IN  /\ Cardinality(body) = (q.rings + 1) * q.longitudes
           /\ \A m \in 0 .. q.rings : \A j \in 0 .. q.longitudes - 1 :
                 \E p \in body : /\ Len(r.v_indices[p]) = 4
                                 /\ VertexSet(r.v_indices[p]) = BandQuad(q, m, j)
C11_CylinderBody == Returned => CylinderBody(result[1], P)
C11_Witness == Returned /\ P.rings >= 2 /\ CylinderBody(result[1], P)


\* Rows of vts between the polar entries: row r holds longitudes + 1 columns,
\* vts[longitudes + r*(longitudes + 1) + j]; there are latitudes + rings rows.
UvIndex(q, r, j) == q.longitudes + r * (q.longitudes + 1) + j
UvRows(q) == 0 .. q.latitudes + q.rings - 1
IsQuadAt(q, p) == p >= q.longitudes /\ p < FaceCount(q) - q.longitudes
UvColumn(q, t) == (t - q.longitudes) % (q.longitudes + 1)
VertexColumn(q, v) == (v - 1) % q.longitudes

\* C12: every non-polar row of vts has longitudes + 1 entries with U =
\* j/longitudes in column j (0 in column 0, 1 in column longitudes), and the
\* quad of column longitudes - 1 uses UV column longitudes where its vertex
\* index wraps to column 0.
SeamColumns(r, q) ==
    /\ \A w \in UvRows(q) :
          /\ \A j \in 0 .. q.longitudes : r.vts[UvIndex(q, w, j)][1] = Rat(j, q.longitudes)
          /\ r.vts[UvIndex(q, w, 0)][1] = <<0, 1>>
          /\ r.vts[UvIndex(q, w, q.longitudes)][1] = <<1, 1>>
    /\ \A p \in DOMAIN r.v_indices :
          (IsQuadAt(q, p) /\ p % q.longitudes = q.longitudes - 1) =>
              /\ UvColumn(q, r.vt_indices[p][1]) = q.longitudes - 1
              /\ UvColumn(q, r.vt_indices[p][2]) = q.longitudes - 1
              /\ UvColumn(q, r.vt_indices[p][3]) = q.longitudes
              /\ UvColumn(q, r.vt_indices[p][4]) = q.longitudes
              /\ VertexColumn(q, r.v_indices[p][3]) = 0
              /\ VertexColumn(q, r.v_indices[p][4]) = 0
NorthEquatorRow(q) == (q.latitudes \div 2) - 1
SouthEquatorRow(q) == (q.latitudes \div 2) + q.rings
SouthEquatorV(q) ==
    IF q.uv_profile = "ASPECT"
    THEN RDiv(q.radius, RAdd(q.depth, RMul(<<2, 1>>, q.radius)))
    ELSE IF q.uv_profile = "UNIFORM"
    THEN Rat(q.latitudes \div 2, q.rings + 1 + q.latitudes)
    ELSE <<1, 3>>

\* C13: the polar UVs have V = 1 (north) and V = 0 (south); the south equator
\* row has V = 1/3 (FIXED), radius/(depth + 2*radius) on the clamped values
\* (ASPECT) or (latitudes/2)/(rings + 1 + latitudes) (UNIFORM), and the north
\* equator row has 1 minus that value.
EquatorV(r, q) ==
    /\ \A j \in 0 .. q.longitudes - 1 :
          /\ r.vts[j][2] = <<1, 1>>
          /\ r.vts[Size(r.vts) - q.longitudes + j][2] = <<0, 1>>
    /\ \A j \in 0 .. q.longitudes :
          /\ r.vts[UvIndex(q, SouthEquatorRow(q), j)][2] = SouthEquatorV(q)
          /\ r.vts[UvIndex(q, NorthEquatorRow(q), j)][2] = RSub(<<1, 1>>, SouthEquatorV(q))
C13_EquatorV == Returned => EquatorV(result[1], P)
C13_Witness ==
    /\ Returned /\ P.uv_profile = "ASPECT" /\ P.radius # args[1].radius
    /\ P.depth # args[1].depth /\ P.rings >= 1
    /\ EquatorV(result[1], P)


\* Hemisphere rows, counted like the vertex rows: north rows precede the north
\* equator, south rows follow the south equator.
NorthRows(q) == 0 .. NorthEquatorRow(q) - 1
SouthRows(q) == SouthEquatorRow(q) + 1 .. q.latitudes + q.rings - 1
\* Latitude steps between the pole and the ring a vertex lies on, read from its
\* height: radius * cos(k*pi/latitudes) beyond the cap's base in the north,
\* radius * sin(i*pi/latitudes) = radius * cos((latitudes/2 - i)*pi/latitudes)
\* beyond it in the south.
StepsFromPole(q, v) ==
    IF v[3].t.fp = "cos" THEN v[3].t.ip ELSE (q.latitudes \div 2) - v[3].t.ip
LinearV(poleV, equatorV, k, n) == RAdd(poleV, RMul(Rat(k, n), RSub(equatorV, poleV)))

\* C14: in each hemisphere the V of the UV row of a latitude ring is the
\* linear interpolation between the pole's V and the hemisphere's equator V
\* at fraction k/(latitudes/2), k being the number of latitude steps between
\* the pole and the ring of vs stored in the same row; k runs through
\* 1 .. latitudes/2 - 1 in both hemispheres.
HemisphereV(r, q) ==
    /\ \A w \in NorthRows(q) :
          LET k == StepsFromPole(q, r.vs[RowVertex(q, w, 0)])
          IN  /\ k = w + 1
              /\ \A j \in 0 .. q.longitudes :
                    r.vts[UvIndex(q, w, j)][2] =
                        LinearV(<<1, 1>>, RSub(<<1, 1>>, SouthEquatorV(q)), k, q.latitudes \div 2)
    /\ \A w \in SouthRows(q) :
          LET k == StepsFromPole(q, r.vs[RowVertex(q, w, 0)])
          IN  /\ k = q.latitudes + q.rings - w
              /\ \A j \in 0 .. q.longitudes :
                    r.vts[UvIndex(q, w, j)][2] =
                        LinearV(<<0, 1>>, SouthEquatorV(q), k, q.latitudes \div 2)
C14_HemisphereV == Returned => HemisphereV(result[1], P)
C14_Witness == Returned /\ P.latitudes >= 6 /\ P.rings >= 1 /\ HemisphereV(result[1], P)


\* Ring row of a vertex index and of a UV index; the north pole and its polar
\* UVs count as the row before the first ring, the south pole and its polar
\* UVs as the row after the last.
VertexRow(q, v) ==
    IF v = 0 THEN -1
    ELSE IF v = VertexCount(q) - 1 THEN q.latitudes + q.rings ELSE (v - 1) \div q.longitudes
UvRow(q, t) ==
    IF t < q.longitudes THEN -1
    ELSE IF t >= UvCount(q) - q.longitudes THEN q.latitudes + q.rings
    ELSE (t - q.longitudes) \div (q.longitudes + 1)
SameColumn(q, v, t) ==
    VertexRow(q, v) \in {-1, q.latitudes + q.rings}
        \/ UvColumn(q, t) % q.longitudes = VertexColumn(q, v)
\* The slot of vns written for a vertex: its own slot down to the north
\* equator, the north equator's slot of its column on the rest of the cylinder
\* body, and its own slot less the rings + 1 rows without normals below it.
NormalIndex(q, v) ==
    IF v <= (q.latitudes \div 2) * q.longitudes THEN v
    ELSE IF v <= ((q.latitudes \div 2) + q.rings + 1) * q.longitudes
    THEN 1 + NorthEquatorRow(q) * q.longitudes + VertexColumn(q, v)
    ELSE v - (q.rings + 1) * q.longitudes
\* The outward unit normal of the capsule at a vertex: (0, 0, +-1) at a pole,
\* elsewhere the offset from the axis or cap centre divided by the radius.
NormalAt(q, v) ==
    IF v[1].a = <<0, 1>>
    THEN <<Zero, Zero, Const(IF RLess(v[3].k, <<0, 1>>) THEN <<-1, 1>> ELSE <<1, 1>>)>>
    ELSE <<Scalar(<<0, 1>>, RDiv(v[1].a, q.radius), v[1].t),
           Scalar(<<0, 1>>, RDiv(v[2].a, q.radius), v[2].t),
           Scalar(<<0, 1>>, RDiv(v[3].a, q.radius), v[3].t)>>

\* C15: for every face and corner, the UV index lies in the row and the column
\* of the vertex index (a polar UV with a pole, UV column longitudes with
\* vertex column 0), and the normal index is the slot holding the normal of
\* the vertex's ring and column, the equator normal of the column for every
\* vertex of the cylinder body.
ConsistentCorners(r, q) ==
    \A c \in Corners(r.v_indices) :
        LET v == r.v_indices[c[1]][c[2]]
            t == r.vt_indices[c[1]][c[2]]
            n == r.vn_indices[c[1]][c[2]]
        IN  /\ UvRow(q, t) = VertexRow(q, v)
            /\ SameColumn(q, v, t)
            /\ n = NormalIndex(q, v)
            /\ r.vns[n] = NormalAt(q, r.vs[v])
            /\ OnCylinder(r.vs[v]) =>
                  r.vns[n] = <<Scalar(<<0, 1>>, <<1, 1>>, CosTheta(VertexColumn(q, v), q.longitudes)),
                               Scalar(<<0, 1>>, <<1, 1>>, SinTheta(VertexColumn(q, v), q.longitudes)),
                               Zero>>
C15_ConsistentCorners == Returned => ConsistentCorners(result[1], P)
C15_Witness ==
    Returned /\ P.latitudes >= 4 /\ P.rings >= 1 /\ ConsistentCorners(result[1], P)


----------------------------------------------------------------------------
(* calculate_radius_height, lines 9-91.                                    *)
(*                                                                         *)
(* Numbers.  The floats of the fitter are modelled as exact reals of the   *)
(* form c[1] + c[2]*Tiny + c[3]*Tiny^2 + ..., a sequence of rational       *)
(* coefficients whose last one is not zero (<<>> is 0).  Tiny is 1e-6, the *)
(* threshold of line 74: a cloud can then hold a coordinate below the      *)
(* threshold without any integer of the model leaving 32 bits.             *)
RECURSIVE Trim(_)
Trim(p) == IF p # <<>> /\ p[Len(p)] = <<0, 1>> THEN Trim(SubSeq(p, 1, Len(p) - 1)) ELSE p
Coef(p, k) == IF k \in 1 .. Len(p) THEN p[k] ELSE <<0, 1>>
Real(r) == Trim(<<r>>)
\* The function f over 1 .. n as the sequence of its values.
Listed(f) == f \o <<>>
Tiny == <<<<0, 1>>, <<1, 1>>>>
NAdd(p, q) ==
    Trim(Listed([k \in 1 .. IMax(Len(p), Len(q)) |-> RAdd(Coef(p, k), Coef(q, k))]))
NScale(r, p) == Trim(Listed([k \in 1 .. Len(p) |-> RMul(r, p[k])]))
NSub(p, q) == NAdd(p, NScale(<<-1, 1>>, q))
RECURSIVE Convolve(_, _, _, _)
Convolve(p, q, k, i) ==
    IF i > k THEN <<0, 1>>
    ELSE RAdd(RMul(Coef(p, i), Coef(q, k + 1 - i)), Convolve(p, q, k, i + 1))
NMul(p, q) ==
    IF p = <<>> \/ q = <<>> THEN <<>>
    ELSE Listed([k \in 1 .. Len(p) + Len(q) - 1 |-> Convolve(p, q, k, 1)])
\* The sign of a real is the sign of its first coefficient that is not zero:
\* the later ones weigh at most Tiny/(1 - Tiny) times the largest of them.
RECURSIVE NSign(_)
NSign(p) ==
    IF p = <<>> THEN 0
    ELSE IF p[1] = <<0, 1>> THEN NSign(Tail(p))
    ELSE IF p[1][1] < 0 THEN -1 ELSE 1
NLess(p, q) == NSign(NSub(p, q)) < 0
NMax(p, q) == IF NLess(p, q) THEN q ELSE p
NMin(p, q) == IF NLess(q, p) THEN q ELSE p

(* Vectors of three reals (numpy arrays of shape (3,)).                    *)
VAdd(a, b) == <<NAdd(a[1], b[1]), NAdd(a[2], b[2]), NAdd(a[3], b[3])>>
VScale(n, a) == <<NMul(n, a[1]), NMul(n, a[2]), NMul(n, a[3])>>
VSub(a, b) == VAdd(a, VScale(Real(<<-1, 1>>), b))
Dot(a, b) == NAdd(NMul(a[1], b[1]), NAdd(NMul(a[2], b[2]), NMul(a[3], b[3])))
Cross(a, b) ==
    <<NSub(NMul(a[2], b[3]), NMul(a[3], b[2])),
      NSub(NMul(a[3], b[1]), NMul(a[1], b[3])),
      NSub(NMul(a[1], b[2]), NMul(a[2], b[1]))>>
Vec(x, y, z) == <<Real(RInt(x)), Real(RInt(y)), Real(RInt(z))>>


RECURSIVE NSum(_)
NSum(s) == IF s = <<>> THEN <<>> ELSE NAdd(Head(s), NSum(Tail(s)))
RECURSIVE Least(_)
Least(s) == IF Len(s) = 1 THEN s[1] ELSE NMin(s[1], Least(Tail(s)))
RECURSIVE Greatest(_)
Greatest(s) == IF Len(s) = 1 THEN s[1] ELSE NMax(s[1], Greatest(Tail(s)))

(* A direction [v, n2] stands for the vector v / sqrt(n2), n2 > 0; a unit   *)
(* vector is a direction with n2 = |v|^2.  n2 = 0 marks the outcome of     *)
(* dividing the zero vector by its zero norm: three NaN components.        *)
Unit(v) == [v |-> v, n2 |-> Dot(v, v)]
Fixed(x, y, z) == [v |-> Vec(x, y, z), n2 |-> Real(<<1, 1>>)]
np_cross(a, b) == [v |-> Cross(a.v, b.v), n2 |-> NMul(a.n2, b.n2)]
\* np.linalg.norm(a) < 1e-6, on the squares
norm_below_threshold(a) == NLess(Dot(a.v, a.v), NMul(NMul(Tiny, Tiny), a.n2))
\* a /= np.linalg.norm(a)
normalized(a) == Unit(a.v)

----------------------------------------------------------------------------
(* Point clouds a call may be given: up to MaxPoints points of Grid, which *)
(* holds points on each coordinate axis, off the axes, and one whose       *)
(* direction from the origin is Tiny/2 away from the z axis.  The fitter   *)
(* reads its points through sums, minima and maxima only, so a cloud lists *)
(* its points in the order of Grid.                                        *)
MaxPoints == 3
Slanted == <<NScale(<<1, 2>>, Tiny), <<>>, Real(<<1, 1>>)>>
Grid ==
    <<Vec(0, 0, 0), Vec(2, 0, 0), Vec(0, 1, 0), Vec(0, 0, 1), Vec(3, 4, 0), Vec(1, 1, 0), Slanted>>
Clouds ==
    UNION {{Listed([i \in 1 .. n |-> Grid[s[i]]]) :
               s \in {t \in [1 .. n -> DOMAIN Grid] : \A i \in 1 .. n - 1 : t[i] <= t[i + 1]}} :
           n \in 0 .. MaxPoints}
CylinderAxes == {"X", "Y", "Z", "W"}

(* Lines 35-37: principal_axis = vh[0] of the SVD of the centred points is *)
(* a unit vector u that maximises |centered_points . u|; its sign, and its *)
(* direction when the largest singular value is repeated, are not fixed.   *)
(* With S = centered^T centered, T its trace and E2 the sum of its 2x2     *)
(* principal minors, u = v/|v| qualifies iff S v is parallel to v and its  *)
(* eigenvalue q/|v|^2, q = v.S.v, is not below the other two:              *)
(* 3q >= T|v|^2 and 3q^2 - 2qT|v|^2 + E2|v|^4 >= 0.                        *)
mean(points) ==
    VScale(Real(Rat(1, Len(points))),
           <<NSum([i \in DOMAIN points |-> points[i][1]]),
             NSum([i \in DOMAIN points |-> points[i][2]]),
             NSum([i \in DOMAIN points |-> points[i][3]])>>)
centered_points(points) == Listed([i \in DOMAIN points |-> VSub(points[i], mean(points))])
IsPrincipal(points, v) ==
    LET c == centered_points(points)
        S(j, k) == NSum([i \in DOMAIN c |-> NMul(c[i][j], c[i][k])])
        Sv == <<NSum([i \in DOMAIN c |-> NMul(c[i][1], Dot(c[i], v))]),
                NSum([i \in DOMAIN c |-> NMul(c[i][2], Dot(c[i], v))]),
                NSum([i \in DOMAIN c |-> NMul(c[i][3], Dot(c[i], v))])>>
        q == Dot(v, Sv)
        T == NAdd(S(1, 1), NAdd(S(2, 2), S(3, 3)))
        E2 == NSub(NAdd(NMul(S(1, 1), S(2, 2)), NAdd(NMul(S(1, 1), S(3, 3)), NMul(S(2, 2), S(3, 3)))),
                   NAdd(NMul(S(1, 2), S(1, 2)), NAdd(NMul(S(1, 3), S(1, 3)), NMul(S(2, 3), S(2, 3)))))
        n2 == Dot(v, v)
        three == Real(<<3, 1>>)
    IN  /\ Cross(Sv, v) = <<<<>>, <<>>, <<>>>>
        /\ ~NLess(NMul(three, q), NMul(T, n2))
        /\ NSign(NAdd(NSub(NMul(three, NMul(q, q)),
                           NScale(<<2, 1>>, NMul(q, NMul(T, n2)))),
                      NMul(E2, NMul(n2, n2)))) >= 0
AxisCandidates ==
    {Unit(VScale(Real(RInt(s)), d)) :
        s \in {-1, 1},
        d \in {Vec(1, 0, 0), Vec(0, 1, 0), Vec(0, 0, 1), Vec(3, 4, 0), Slanted}}
PrincipalAxes(points) == {u \in AxisCandidates : IsPrincipal(points, u.v)}
\* The clouds whose principal axis is one of the candidates, and the clouds
\* too small to have one.
FitArguments ==
    [points : {c \in Clouds : Len(c) < 2 \/ PrincipalAxes(c) # {}},
     cylinder_axis : CylinderAxes]


----------------------------------------------------------------------------
(* The activation record of calculate_radius_height.  A scalar [num, n2]   *)
(* stands for num / sqrt(n2), a vector [v, den] for v / den and a length   *)
(* [sq, den] for sqrt(sq) / den, with n2 = den = |v|^2 of the principal    *)
(* axis v / |v|.                                                           *)
FitCallFrame(a) ==
    [pc |-> "check", points |-> a.points, cylinder_axis |-> a.cylinder_axis,
     exception |-> "", principal_axis |-> <<>>,
     min_projection |-> <<>>, max_projection |-> <<>>, height |-> <<>>,
     center_along_axis |-> <<>>, capsule_center |-> <<>>, radius |-> <<>>,
     x_axis |-> <<>>, y_axis |-> <<>>, z_axis |-> <<>>]

(* Lines 28-32.                                                            *)
\* Variant accepting a single point.
too_few_points_empty(points) == Len(points) < 1
too_few_points(points) == Len(points) < 2
CheckBody(f) ==
    IF too_few_points(f.points)
    THEN [f EXCEPT !.exception = "ValueError", !.pc = "raised"]
    ELSE [f EXCEPT !.pc = "svd"]

(* Lines 35-37, for the outcome u of the decomposition.                    *)
SvdBody(f, u) == [f EXCEPT !.principal_axis = u, !.pc = "project"]

(* Lines 40-49: the projections are those of np_points, not of the centred *)
(* points, and the centre is the mean plus principal_axis times their      *)
(* midpoint.                                                               *)
projections(f) == Listed([i \in DOMAIN f.points |-> Dot(f.points[i], f.principal_axis.v)])
ProjectBody(f) ==
    LET u == f.principal_axis
        lo == Least(projections(f))
        hi == Greatest(projections(f))
        mid == NScale(<<1, 2>>, NAdd(lo, hi))
    IN  [f EXCEPT
            !.min_projection = [num |-> lo, n2 |-> u.n2],
            !.max_projection = [num |-> hi, n2 |-> u.n2],
            !.height = [num |-> NSub(hi, lo), n2 |-> u.n2],
            !.center_along_axis = [num |-> mid, n2 |-> u.n2],
            !.capsule_center =
                [v |-> VAdd(VScale(u.n2, mean(f.points)), VScale(mid, u.v)), den |-> u.n2],
            !.pc = "radius"]

(* Lines 52-58.  With axis_dir = a.v / sqrt(a.n2) the offset d of line 54  *)
(* is (a.n2 * v - (v . a.v) * a.v) / a.n2.                                 *)
\* Variant measuring from the origin.
axis_point_origin(f) == Vec(0, 0, 0)
axis_point(f) == mean(f.points)
\* Variant keeping the component of v along the axis.
distance_to_axis_point(point, ap, axis_dir) ==
    LET v == VSub(point, ap)
    IN  [sq |-> Dot(VScale(axis_dir.n2, v), VScale(axis_dir.n2, v)), den |-> axis_dir.n2]
distance_to_axis(point, ap, axis_dir) ==
    LET v == VSub(point, ap)
        d == VSub(VScale(axis_dir.n2, v), VScale(Dot(v, axis_dir.v), axis_dir.v))
    IN  [sq |-> Dot(d, d), den |-> axis_dir.n2]
RadiusBody(f) ==
    LET ds == Listed([i \in DOMAIN f.points |->
                          distance_to_axis(f.points[i], axis_point(f), f.principal_axis).sq])
    IN  [f EXCEPT
            !.radius = [sq |-> Greatest(ds), den |-> f.principal_axis.n2],
            !.pc = "basis"]


(* Lines 61-72: x_axis, y_axis and z_axis before normalisation.            *)
BasisBody(f) ==
    LET u == f.principal_axis
    IN  IF f.cylinder_axis = "X"
        THEN LET y == np_cross(Fixed(0, 0, 1), u)
             IN  [f EXCEPT !.x_axis = u, !.y_axis = y, !.z_axis = np_cross(u, y),
                           !.pc = "fallback"]
        ELSE IF f.cylinder_axis = "Y"
        THEN LET x == np_cross(Fixed(0, 0, 1), u)
             IN  [f EXCEPT !.y_axis = u, !.x_axis = x, !.z_axis = np_cross(x, u),
                           !.pc = "fallback"]
        ELSE LET x == np_cross(Fixed(0, 1, 0), u)
             IN  [f EXCEPT !.z_axis = u, !.x_axis = x, !.y_axis = np_cross(u, x),
                           !.pc = "fallback"]

(* Lines 74-75.                                                            *)
FallbackBody(f) ==
    IF norm_below_threshold(f.y_axis)
    THEN [f EXCEPT !.y_axis = np_cross(Fixed(0, 1, 0), f.z_axis), !.pc = "normalize"]
    ELSE [f EXCEPT !.pc = "normalize"]

(* Lines 76-78: numpy divides a zero vector by its zero norm into NaNs.    *)
NormalizeBody(f) ==
    [f EXCEPT !.x_axis = normalized(f.x_axis), !.y_axis = normalized(f.y_axis),
              !.z_axis = normalized(f.z_axis), !.pc = "ret"]

(* Lines 80-91: the matrix is given by its columns x_axis, y_axis, z_axis; *)
(* to_4x4 adds the unit row and column.                                    *)
FitReturnValue(f) ==
    [radius |-> f.radius, height |-> f.height, center_vector |-> f.capsule_center,
     rotation_matrix_4x4 |-> <<f.x_axis, f.y_axis, f.z_axis>>]

FitStepFrame(f) ==
    CASE f.pc = "check" -> CheckBody(f)
      [] f.pc = "project" -> ProjectBody(f)
      [] f.pc = "radius" -> RadiusBody(f)
      [] f.pc = "basis" -> BasisBody(f)
      [] f.pc = "fallback" -> FallbackBody(f)
      [] f.pc = "normalize" -> NormalizeBody(f)

\* The values a call may return, one for each outcome of the decomposition;
\* none when it raises.
FitRunFrame(f, u) ==
    NormalizeBody(FallbackBody(BasisBody(RadiusBody(ProjectBody(SvdBody(f, u))))))
calculate_radius_height(a) ==
    LET f == CheckBody(FitCallFrame(a))
    IN  IF f.pc = "raised" THEN {}
        ELSE {FitReturnValue(FitRunFrame(f, u)) : u \in PrincipalAxes(a.points)}

----------------------------------------------------------------------------
(* One call of calculate_radius_height.                                    *)
FitCall ==
    /\ fit.pc = "idle"
    /\ \E a \in FitArguments :
        /\ fit_args' = <<a>>
        /\ fit' = FitCallFrame(a)
    /\ UNCHANGED <<fit_result, builder_vars, operator_vars>>

FitAt(pc) ==
    /\ fit.pc = pc
    /\ fit' = FitStepFrame(fit)
    /\ UNCHANGED <<fit_args, fit_result, builder_vars, operator_vars>>

FitCheck == FitAt("check")
FitSvd ==
    /\ fit.pc = "svd"
    /\ \E u \in PrincipalAxes(fit.points) : fit' = SvdBody(fit, u)
    /\ UNCHANGED <<fit_args, fit_result, builder_vars, operator_vars>>
FitProject == FitAt("project")
FitRadius == FitAt("radius")
FitBasis == FitAt("basis")
FitFallback == FitAt("fallback")
FitNormalize == FitAt("normalize")
FitReturn ==
    /\ fit.pc = "ret"
    /\ fit_result' = <<FitReturnValue(fit)>>
    /\ fit' = [fit EXCEPT !.pc = "done"]
    /\ UNCHANGED <<fit_args, builder_vars, operator_vars>>

FitNext ==
    \/ FitCall \/ FitCheck \/ FitSvd \/ FitProject \/ FitRadius
    \/ FitBasis \/ FitFallback \/ FitNormalize \/ FitReturn

FitSpec == Init /\ [][FitNext]_vars


----------------------------------------------------------------------------
(* Properties of calculate_radius_height.                                  *)
FitCalled == fit_args # <<>>
FitReturned == fit.pc = "done"
FitRaised == fit.pc = "raised"
Descriptor == {"radius", "height", "center_vector", "rotation_matrix_4x4"}

\* C16: a call with fewer than 2 points ends in ValueError right after the
\* length check, with no result and nothing computed; a call with 2 or more
\* points never raises, has a return value whatever the decomposition yields,
\* and returns the four components radius, height, center and rotation.
C16_TooFewPoints ==
    /\ FitRaised =>
          /\ Len(fit.points) < 2 /\ fit.exception = "ValueError"
          /\ fit_result = <<>> /\ fit.principal_axis = <<>>
    /\ (FitCalled /\ Len(fit.points) < 2) =>
          /\ fit.pc \in {"check", "raised"} /\ fit_result = <<>>
          /\ fit.pc = "check" => calculate_radius_height(fit_args[1]) = {}
    /\ (FitCalled /\ Len(fit.points) >= 2) =>
          /\ ~FitRaised
          /\ fit.pc = "check" =>
                /\ calculate_radius_height(fit_args[1]) # {}
                /\ \A r \in calculate_radius_height(fit_args[1]) : DOMAIN r = Descriptor
          /\ FitReturned => Len(fit_result) = 1 /\ DOMAIN fit_result[1] = Descriptor
C16_Witness == FitRaised /\ Len(fit.points) = 1 /\ fit_result = <<>>

\* Squared perpendicular distance of point p to the line through c along
\* u.v / sqrt(u.n2), times u.n2:  |p - c|^2 |v|^2 - ((p - c) . v)^2.
PerpSq(p, c, u) ==
    NSub(NMul(Dot(VSub(p, c), VSub(p, c)), u.n2),
         NMul(Dot(VSub(p, c), u.v), Dot(VSub(p, c), u.v)))
\* radius^2 times u.n2
RadiusSq(r, u) == NMul(r.sq, u.n2)
WithinRadius(p, c, u, r) == ~NLess(RadiusSq(r, u), NMul(PerpSq(p, c, u), NMul(r.den, r.den)))
OnRadius(p, c, u, r) == RadiusSq(r, u) = NMul(PerpSq(p, c, u), NMul(r.den, r.den))

\* C17: the returned radius is the largest perpendicular distance of an input
\* point to the line through the centroid along the principal axis: no point
\* is farther than the radius and some point is exactly that far.
C17_Radius ==
    FitReturned =>
        LET r == fit_result[1].radius
            c == mean(fit.points)
            u == fit.principal_axis
        IN  /\ \A i \in DOMAIN fit.points : WithinRadius(fit.points[i], c, u, r)
            /\ \E i \in DOMAIN fit.points : OnRadius(fit.points[i], c, u, r)
C17_Witness ==
    /\ FitReturned /\ fit_result[1].radius.sq # <<>>
    /\ \E i \in DOMAIN fit.points :
          ~OnRadius(fit.points[i], mean(fit.points), fit.principal_axis, fit_result[1].radius)
    /\ \E i \in DOMAIN fit.points :
          OnRadius(fit.points[i], mean(fit.points), fit.principal_axis, fit_result[1].radius)

\* C18: the projection of every input point on the principal axis lies
\* between center.axis - height/2 and center.axis + height/2.  (All three
\* terms are taken times sqrt(u.n2) * center.den, which is positive.)
C18_HeightBounds ==
    FitReturned =>
        LET u == fit.principal_axis
            center == fit_result[1].center_vector
            half == NScale(<<1, 2>>, NMul(center.den, fit_result[1].height.num))
            along == Dot(center.v, u.v)
        IN  \A i \in DOMAIN fit.points :
                LET p == NMul(center.den, Dot(fit.points[i], u.v))
                IN  ~NLess(p, NSub(along, half)) /\ ~NLess(NAdd(along, half), p)

Reference(cylinder_axis) == IF cylinder_axis \in {"X", "Y"} THEN Fixed(0, 0, 1) ELSE Fixed(0, 1, 0)
ColumnOf(cylinder_axis) == IF cylinder_axis = "X" THEN 1 ELSE IF cylinder_axis = "Y" THEN 2 ELSE 3
NoVector == <<<<>>, <<>>, <<>>>>
Parallel(a, b) == Cross(a.v, b.v) = NoVector
IsUnit(a) == a.n2 # <<>> /\ a.n2 = Dot(a.v, a.v)
Orthonormal(m) ==
    /\ \A k \in 1 .. 3 : IsUnit(m[k])
    /\ Dot(m[1].v, m[2].v) = <<>> /\ Dot(m[1].v, m[3].v) = <<>> /\ Dot(m[2].v, m[3].v) = <<>>
SameUnit(a, b) == IsUnit(a) /\ IsUnit(b) /\ Parallel(a, b) /\ NSign(Dot(a.v, b.v)) > 0

\* C19: when the principal axis is not parallel to the reference vector of the
\* chosen cylinder_axis, the columns of the returned rotation are unit vectors
\* orthogonal to each other and the column of cylinder_axis (0 for X, 1 for Y,
\* 2 for Z and for any other value) is the principal axis.
C19_Rotation ==
    (FitReturned /\ ~Parallel(fit.principal_axis, Reference(fit.cylinder_axis))) =>
        /\ Orthonormal(fit_result[1].rotation_matrix_4x4)
        /\ SameUnit(fit_result[1].rotation_matrix_4x4[ColumnOf(fit.cylinder_axis)],
                    fit.principal_axis)

\* C20: when the principal axis is parallel to the reference vector of the
\* chosen cylinder_axis, the three basis vectors are non-zero before the
\* normalisation and no column of the returned rotation is a zero vector
\* divided by its zero norm.
C20_Fallback ==
    /\ (fit.pc = "normalize" /\ Parallel(fit.principal_axis, Reference(fit.cylinder_axis))) =>
          fit.x_axis.v # NoVector /\ fit.y_axis.v # NoVector /\ fit.z_axis.v # NoVector
    /\ (FitReturned /\ Parallel(fit.principal_axis, Reference(fit.cylinder_axis))) =>
          \A k \in 1 .. 3 : fit_result[1].rotation_matrix_4x4[k].n2 # <<>>


\* C21: a call with exactly two identical points does not return a descriptor.
C21_NoAxis ==
    (FitCalled /\ Len(fit.points) = 2 /\ fit.points[1] = fit.points[2]) => ~FitReturned

Collinear(points) ==
    \A i, j \in DOMAIN points :
        Cross(VSub(points[i], points[1]), VSub(points[j], points[1])) = NoVector
\* C22: two distinct points give radius 0 and a height whose square is the
\* squared distance between them (height = num/sqrt(n2)); every collinear
\* cloud gives radius 0.
TwoPoints ==
    (FitReturned /\ Len(fit.points) = 2 /\ fit.points[1] # fit.points[2]) =>
        LET h == fit_result[1].height
            d == VSub(fit.points[2], fit.points[1])
        IN  /\ fit_result[1].radius.sq = <<>>
            /\ NSign(h.num) > 0
            /\ NMul(h.num, h.num) = NMul(Dot(d, d), h.n2)
C22_Collinear ==
    /\ TwoPoints
    /\ (FitReturned /\ Collinear(fit.points)) => fit_result[1].radius.sq = <<>>
C22_Witness ==
    /\ FitReturned /\ Len(fit.points) = 2 /\ fit.points[1] # fit.points[2]
    /\ Dot(mean(fit.points), fit.principal_axis.v) # <<>> /\ TwoPoints


\* The call with the same segment counts and a fixed size and UV profile.
SameSegments(a) ==
    [a EXCEPT !.radius = <<1, 1>>, !.depth = <<1, 1>>, !.uv_profile = "FIXED"]
SameTopology(r, s) ==
    /\ r.vns = s.vns /\ r.v_indices = s.v_indices
    /\ r.vt_indices = s.vt_indices /\ r.vn_indices = s.vn_indices
\* C24: vns, v_indices, vt_indices and vn_indices depend only on longitudes,
\* latitudes and rings: every call returns the same four buffers as the call
\* with the same three segment counts and radius 1, depth 1, profile FIXED,
\* hence the same as any call that differs only in radius, depth or profile.
C24_SegmentsOnly ==
    (Returned /\ result # <<>>) =>
        LET c == create_capsule_data(SameSegments(args[1]))
        IN  c # <<>> /\ SameTopology(result[1], c[1])
C24_Witness ==
    /\ Returned /\ result # <<>> /\ args[1].rings > 0
    /\ args[1].radius = <<2, 1>> /\ args[1].depth = <<0, 1>>
    /\ args[1].uv_profile = "ASPECT"
    /\ result[1].vs # create_capsule_data(SameSegments(args[1]))[1].vs
    /\ result[1].vts # create_capsule_data(SameSegments(args[1]))[1].vts


Translations == {Vec(1, 0, 0), Vec(0, 0, 1), Vec(1, 2, 3)}
Translated(points, t) == Listed([k \in 1 .. Len(points) |-> VAdd(points[k], t)])
\* r is the descriptor s with its center moved by t.
MovedBy(r, s, t) ==
    /\ r.radius = s.radius /\ r.height = s.height
    /\ r.rotation_matrix_4x4 = s.rotation_matrix_4x4
    /\ VScale(s.center_vector.den, r.center_vector.v) =
          VScale(r.center_vector.den,
                 VAdd(s.center_vector.v, VScale(s.center_vector.den, t)))
\* C25: translating every point by t leaves radius, height and rotation
\* unchanged and moves the returned center by exactly t.
C25_Translation ==
    FitReturned =>
        \A t \in Translations :
            \E r \in calculate_radius_height(
                        [fit_args[1] EXCEPT !.points = Translated(fit.points, t)]) :
                MovedBy(r, fit_result[1], t)


\* The z of the rows the cylinder joins, from the north pole to the south
\* pole, in column j: pole, north equator, mid rings 1 .. rings, south
\* equator, pole.
ZChain(r, q, j) ==
    <<r.vs[0][3]>> \o
    Listed([k \in 1 .. q.rings + 2 |-> r.vs[CylVertex(q, k - 1, j)][3]]) \o
    <<r.vs[Size(r.vs) - 1][3]>>
StrictlyDescending(zs) ==
    /\ \A k \in DOMAIN zs : zs[k].a = <<0, 1>>
    /\ \A k \in 1 .. Len(zs) - 1 : RLess(zs[k + 1].k, zs[k].k)
----------------------------------------------------------------------------
(* The modal operators of src/collider_shapes and src/operators.           *)
(*                                                                         *)
(* self is the operator instance and context the part of the host's state  *)
(* the handlers read and write: the objects of bpy.data.objects created by *)
(* the operators (colliders, named <<t0, k>>: the k-th object of the       *)
(* generation started at time t0), their modifiers as pairs <<object,      *)
(* name>>, the viewport shading, the mode and the number of events         *)
(* delivered to the modal handler.  self.t0 (time.time(), line 1174) is a  *)
(* logical clock: it advances by one at every execute.  A handler is an    *)
(* operator on the pair w = [s |-> self, c |-> context]; an exception      *)
(* raised in it is recorded in s.exception and ends the handler.  Display  *)
(* properties the handlers only write (names, colours, wire, x-ray, hide)  *)
(* are not part of the state.  The sphere and convex hull operators are    *)
(* modelled on the base class of src/collider_shapes.                      *)
MaxEvents == 2

Range(list) == {list[k] : k \in DOMAIN list}
Segment == <<Vec(0, 0, 0), Vec(0, 0, 1)>>
Single == <<Vec(0, 0, 0)>>
\* An object of the selection: its vertices (selected vertices in edit
\* mode), its vertices with the modifier stack applied, its world location.
Mesh(vertices, evaluated) ==
    [type |-> "MESH", vertices |-> vertices, evaluated |-> evaluated,
     location |-> Vec(1, 0, 0)]
Light == [type |-> "LIGHT", vertices |-> <<>>, evaluated |-> <<>>, location |-> Vec(0, 0, 0)]
poll(selected_objects) ==
    Cardinality({k \in DOMAIN selected_objects : selected_objects[k].type = "MESH"}) > 0
Selections ==
    {sel \in {<<Mesh(<<>>, Segment)>>, <<Mesh(<<>>, <<>>)>>,
              <<Light, Mesh(<<>>, Single)>>, <<Light>>,
              <<Mesh(Segment, Segment), Mesh(Segment, Segment)>>} : poll(sel)}

Kinds == {"capsule", "sphere", "convex_hull"}
MouseXs == {0, 100}
EventTypes ==
    {"MIDDLEMOUSE", "RIGHTMOUSE", "ESC", "LEFTMOUSE", "RET", "LEFT_SHIFT", "LEFT_ALT",
     "W", "M", "S", "D", "A", "E", "V", "MOUSEMOVE", "G", "L", "P", "X"}
\* "X" is any key that changes display properties only (H, C, T) or nothing.
\* Events arrive with ctrl and shift released.
Events == [type : EventTypes, value : {"PRESS", "RELEASE"}, alt : BOOLEAN, mouse_x : MouseXs]

shading_modes == <<"OBJECT", "MATERIAL", "SINGLE">>
creation_mode == <<"INDIVIDUAL", "SELECTION">>

(* Lines 424-432.                                                          *)
collision_dictionary(alpha, offset, decimate, sphere_segments, cylinder_segments) ==
    [alpha |-> alpha, discplace_offset |-> offset, decimate |-> decimate,
     sphere_segments |-> sphere_segments, cylinder_segments |-> cylinder_segments]

raise(w, exception) == [w EXCEPT !.s.exception = exception]
raised(w) == w.s.exception # ""

(* Lines 474-479.                                                          *)
\* Variant that leaves the objects in place.
remove_objects_none(list, c) == c
remove_objects(list, c) ==
    [c EXCEPT !.objects = @ \ Range(list),
              !.modifiers = {m \in @ : m[1] \notin Range(list)}]

(* Lines 1172-1188: OBJECT_OT_add_bounding_object.execute.                 *)
base_execute(w) ==
    LET c == remove_objects(w.s.new_colliders_list, w.c)
    IN  [s |-> [w.s EXCEPT !.t0 = @ + 1, !.obj_mode = w.c.mode,
                           !.new_colliders_list = <<>>,
                           !.displace_modifiers = <<>>,
                           !.old_objs = c.objects],
         c |-> c]

(* Lines 765-780.                                                          *)
add_displacement_modifier(w, bounding_object) ==
    [w EXCEPT !.c.modifiers = @ \cup {<<bounding_object, "Collision_displace">>},
              !.s.displace_modifiers = Append(@, <<bounding_object, "Collision_displace">>)]
add_decimate_modifier(w, bounding_object) ==
    [w EXCEPT !.c.modifiers = @ \cup {<<bounding_object, "Collision_decimate">>},
              !.s.decimate_modifiers = Append(@, <<bounding_object, "Collision_decimate">>)]
(* Lines 688-699.                                                          *)
del_displace_modifier(c, bounding_object) ==
    [c EXCEPT !.modifiers = @ \ {<<bounding_object, "Collision_displace">>}]
del_decimate_modifier(c, bounding_object) ==
    [c EXCEPT !.modifiers = @ \ {<<bounding_object, "Collision_decimate">>}]

(* Lines 707-716: the modifiers primitive_postprocessing adds.             *)
primitive_postprocessing(w, bounding_object) ==
    LET w1 == add_displacement_modifier(w, bounding_object)
    IN  IF w1.s.use_decimation THEN add_decimate_modifier(w1, bounding_object) ELSE w1

(* Lines 757-763.                                                          *)
reset_to_initial_state(w) == [w EXCEPT !.c.mode = w.s.obj_mode]

\* bpy.data.objects.new / obj.copy(): the k-th object of this generation.
new_object(w, k) == [w EXCEPT !.c.objects = @ \cup {<<w.s.t0, k>>}]

(* Lines 635-639, 524-577, 590-608.                                        *)
is_valid_object(obj) == obj.type = "MESH"
\* <<>> stands for None.
get_vertices(obj, use_modifiers) == IF use_modifiers THEN obj.evaluated ELSE obj.vertices
get_point_positions(obj, space, used_vertices) ==
    IF space = "GLOBAL" THEN Translated(used_vertices, obj.location) ELSE used_vertices

(* add_bounding_capsule.py, lines 61-87: the point sets of the selection.  *)
(* self.my_space is set by the G and L keys only; reading it before raises *)
(* AttributeError.                                                         *)
RECURSIVE collect(_, _, _)
collect(s, k, collider_data) ==
    IF k > Len(s.selected_objects) THEN [data |-> collider_data, exception |-> ""]
    ELSE LET obj == s.selected_objects[k]
             used_vertices == get_vertices(obj, s.my_use_modifier_stack)
         IN  IF ~is_valid_object(obj) \/ used_vertices = <<>>
                \/ creation_mode[s.creation_mode_idx + 1] # "INDIVIDUAL"
             THEN collect(s, k + 1, collider_data)
             ELSE IF s.my_space = ""
             THEN [data |-> collider_data, exception |-> "AttributeError"]
             ELSE collect(s, k + 1,
                          Append(collider_data,
                                 [parent |-> k,
                                  verts_loc |-> get_point_positions(obj, s.my_space,
                                                                    used_vertices)]))

(* Line 97: the call Capsule.calculate_radius_height(verts_loc) as the     *)
(* operator reads it.  It raises ValueError for fewer than two points and  *)
(* returns the tuple of the four components otherwise; the operator        *)
(* unpacks the tuple before it reads any component, so that the tuple is   *)
(* given by the names of its components.                                   *)
fitted(verts_loc) ==
    IF too_few_points(verts_loc) THEN [exception |-> "ValueError", value |-> {}]
    ELSE [exception |-> "", value |-> Descriptor]
\* The value read at line 97 is the one calculate_radius_height computes.
FittedAsComputed ==
    FitCalled =>
        /\ fitted(fit.points).exception # "" <=> calculate_radius_height(fit_args[1]) = {}
        /\ \A r \in calculate_radius_height(fit_args[1]) :
               DOMAIN r = fitted(fit.points).value
\* radius, height = value unpacks a tuple of exactly two components.
unpacks(value, targets) == Cardinality(value) = targets

(* add_bounding_capsule.py, lines 91-128: one collider for each point set. *)
RECURSIVE capsule_colliders(_, _)
capsule_colliders(w, k) ==
    IF k > Len(w.s.collider_data) THEN w
    ELSE LET value == fitted(w.s.collider_data[k].verts_loc)
             w1 == [w EXCEPT !.s.called = Append(@, "fit")]
         IN  IF value.exception # "" THEN raise(w1, value.exception)
             ELSE IF ~unpacks(value.value, 2) THEN raise(w1, "ValueError")
             ELSE LET w2 == new_object([w1 EXCEPT !.s.called = @ \o <<"build", "assemble">>], k)
                      w3 == [w2 EXCEPT !.s.new_colliders_list = Append(@, <<w.s.t0, k>>)]
                  IN  capsule_colliders(primitive_postprocessing(w3, <<w.s.t0, k>>), k + 1)

(* add_bounding_capsule.py, lines 56-128, after super().execute(context)   *)
(* returned w.                                                             *)
capsule_collected(w) ==
    LET collected == collect(w.s, 1, <<>>)
        w2 == [w EXCEPT !.s.collider_data = collected.data, !.s.called = <<>>]
    IN  IF collected.exception # "" THEN raise(w2, collected.exception)
        ELSE capsule_colliders([w2 EXCEPT !.c.mode = "OBJECT"], 1)
(* add_bounding_capsule.py, lines 130-136.                                 *)
capsule_created(w) == IF raised(w) THEN w ELSE reset_to_initial_state(w)
(* add_bounding_capsule.py, lines 53-136.                                  *)
capsule_execute(w) == capsule_created(capsule_collected(base_execute(w)))

(* add_bounding_sphere.py, lines 82-221: one sphere for each mesh object   *)
(* with vertices.                                                          *)
RECURSIVE sphere_colliders(_, _)
sphere_colliders(w, k) ==
    IF k > Len(w.s.selected_objects) THEN w
    ELSE LET obj == w.s.selected_objects[k]
         IN  IF obj.type # "MESH" \/ get_vertices(obj, w.c.my_use_modifier_stack) = <<>>
             THEN sphere_colliders(w, k + 1)
             ELSE LET w1 == new_object(w, k)
                      w2 == [w1 EXCEPT !.s.new_colliders_list = Append(@, <<w.s.t0, k>>)]
                  IN  sphere_colliders(
                          reset_to_initial_state(primitive_postprocessing(w2, <<w.s.t0, k>>)),
                          k + 1)
sphere_execute(w) == sphere_colliders(base_execute(w), 1)

(* add_bounding_convex_hull.py, lines 39-118: a copy of each mesh object;  *)
(* the new list is every object of the scene that was not there before.    *)
RECURSIVE hull_colliders(_, _)
hull_colliders(w, k) ==
    IF k > Len(w.s.selected_objects) THEN w
    ELSE IF w.s.selected_objects[k].type # "MESH" THEN hull_colliders(w, k + 1)
    ELSE hull_colliders(primitive_postprocessing(new_object(w, k), <<w.s.t0, k>>), k + 1)
RECURSIVE Enumerated(_)
Enumerated(objects) ==
    IF objects = {} THEN <<>>
    ELSE LET first == CHOOSE o \in objects : \A p \in objects : o[2] <= p[2]
         IN  <<first>> \o Enumerated(objects \ {first})
convex_hull_execute(w) ==
    LET w1 == hull_colliders(base_execute(w), 1)
    IN  reset_to_initial_state(
            [w1 EXCEPT !.s.new_colliders_list = Enumerated(w1.c.objects \ w1.s.old_objs)])

execute(w) ==
    CASE w.s.kind = "capsule" -> capsule_execute(w)
      [] w.s.kind = "sphere" -> sphere_execute(w)
      [] w.s.kind = "convex_hull" -> convex_hull_execute(w)


(* Lines 482-491: get_delta_value with ctrl and shift released.            *)
get_delta_value(delta, sensibility) == RMul(delta, sensibility)
\* numpy.clip and int(abs(x))
clip(x, lo, hi) == IF RLess(x, lo) THEN lo ELSE IF RLess(hi, x) THEN hi ELSE x
int_abs(x) == Abs(x[1]) \div x[2]

(* Lines 786-819.                                                          *)
cancel_cleanup(w) ==
    LET list == w.s.new_colliders_list
        c == IF ~w.s.is_mesh_to_collider
             THEN [w.c EXCEPT !.objects = @ \ Range(list),
                              !.modifiers = {m \in @ : m[1] \notin Range(list)}]
             ELSE [w.c EXCEPT !.modifiers = {m \in @ : m[1] \notin Range(list)}]
    IN  [w EXCEPT !.c = [c EXCEPT !.color_type = w.s.color_type]]

\* One live-parameter key: its flag toggles, the others are cleared.
(* Lines 1057-1087.                                                        *)
toggle(w, event, flag) ==
    [w EXCEPT !.s.displace_active = IF flag = "S" THEN ~@ ELSE FALSE,
              !.s.decimate_active = IF flag = "D" THEN ~@ ELSE FALSE,
              !.s.opacity_active = IF flag = "A" THEN ~@ ELSE FALSE,
              !.s.vertex_count_active = IF flag = "E" THEN ~@ ELSE FALSE,
              !.s.sphere_segments_active = FALSE,
              !.s.mouse_initial_x = event.mouse_x]

(* Lines 1100-1165: MOUSEMOVE.  The decimate, opacity and segment blocks   *)
(* reassign delta, so a later block starts from the scaled value.          *)
\* The value of delta after a block that reassigns it when its flag is set.
reassigned(active, delta, sensibility) ==
    IF active THEN get_delta_value(delta, sensibility) ELSE delta
\* Lines 1111-1120: the displace block.
move_displace(w, delta) ==
    IF w.s.displace_active
    THEN [w EXCEPT !.s.current_settings_dic.discplace_offset =
                       RSub(w.s.ref_settings_dic.discplace_offset,
                            get_delta_value(delta, <<1, 500>>))]
    ELSE w
\* Lines 1122-1134: the decimate block.
move_decimate(w, delta) ==
    IF w.s.decimate_active
    THEN [w EXCEPT !.s.current_settings_dic.decimate =
                       clip(RAdd(w.s.ref_settings_dic.decimate,
                                 get_delta_value(delta, <<1, 500>>)),
                            <<1, 100>>, <<1, 1>>)]
    ELSE w
\* Lines 1136-1145: the opacity block.
move_opacity(w, delta) ==
    IF w.s.opacity_active
    THEN [w EXCEPT !.s.current_settings_dic.alpha =
                       clip(RSub(w.s.ref_settings_dic.alpha,
                                 get_delta_value(delta, <<1, 500>>)),
                            <<0, 1>>, <<1, 1>>)]
    ELSE w
\* Lines 1147-1155: the vertex count block.
move_vertex_count(w, delta) ==
    LET vertex_count == int_abs(RSub(RInt(w.s.ref_settings_dic.cylinder_segments),
                                     get_delta_value(delta, <<1, 50>>)))
    IN  IF w.s.vertex_count_active /\ vertex_count # w.s.vertex_count
        THEN execute([w EXCEPT !.s.vertex_count = vertex_count,
                               !.s.current_settings_dic.cylinder_segments = vertex_count])
        ELSE w
\* Lines 1157-1165: the sphere segments block.
move_sphere_segments(w, delta) ==
    LET segments == int_abs(RSub(RInt(w.s.ref_settings_dic.sphere_segments),
                                 get_delta_value(delta, <<1, 50>>)))
    IN  IF raised(w) THEN w
        ELSE IF w.s.sphere_segments_active
                /\ segments # w.s.current_settings_dic.sphere_segments
        THEN execute([w EXCEPT !.s.current_settings_dic.sphere_segments = segments])
        ELSE w
\* The blocks in order; no block changes the flags or the reference values.
mouse_move(w, event) ==
    LET delta == RInt(w.s.mouse_initial_x - event.mouse_x)
        delta_d == reassigned(w.s.decimate_active, delta, <<1, 500>>)
        delta_a == reassigned(w.s.opacity_active, delta_d, <<1, 500>>)
        delta_v == reassigned(w.s.vertex_count_active, delta_a, <<1, 50>>)
    IN  move_sphere_segments(
            move_vertex_count(
                move_opacity(move_decimate(move_displace(w, delta), delta), delta_d),
                delta_a),
            delta_v)

\* The confirm keys: the modifiers left at their default value are removed.
(* Lines 965-1007.                                                         *)
confirm(w) ==
    LET list == Range(w.s.new_colliders_list)
        dropped ==
            (IF w.s.current_settings_dic.discplace_offset = <<0, 1>>
             THEN {<<o, "Collision_displace">> : o \in list} ELSE {})
            \cup
            (IF w.s.current_settings_dic.decimate = <<1, 1>>
             THEN {<<o, "Collision_decimate">> : o \in list} ELSE {})
    IN  [w EXCEPT !.c.color_type = w.s.color_type,
                  !.c.modifiers = @ \ dropped,
                  !.c.mode = "OBJECT",
                  !.s.returned = "FINISHED"]

(* Lines 1009-1030: the reference values follow the current ones.          *)
rebase(w, event) ==
    [w EXCEPT !.s.ref_settings_dic = w.s.current_settings_dic,
              !.s.mouse_initial_x = event.mouse_x,
              !.s.ignore_input = FALSE,
              !.s.returned = "RUNNING_MODAL"]

(* Lines 938-1170: OBJECT_OT_add_bounding_object.modal.                    *)
modal(v, event) ==
    LET w == [v EXCEPT !.s.navigation = FALSE, !.s.returned = "RUNNING_MODAL"]
        release == event.value = "RELEASE"
    IN  IF event.alt
        THEN [w EXCEPT !.s.ignore_input = TRUE]
        ELSE IF event.type \in {"MIDDLEMOUSE", "WHEELUPMOUSE", "WHEELDOWNMOUSE"}
        THEN [w EXCEPT !.s.navigation = TRUE,
                       !.s.opacity_active = FALSE, !.s.displace_active = FALSE,
                       !.s.decimate_active = FALSE, !.s.vertex_count_active = FALSE,
                       !.s.sphere_segments_active = FALSE,
                       !.s.returned = "PASS_THROUGH"]
        ELSE IF event.type \in {"RIGHTMOUSE", "ESC"}
        THEN [cancel_cleanup(w) EXCEPT !.s.returned = "CANCELLED"]
        ELSE IF event.type \in {"LEFTMOUSE", "NUMPAD_ENTER", "RET"}
        THEN confirm(w)
        ELSE IF event.type \in {"LEFT_SHIFT", "LEFT_CTRL"}
        THEN rebase(w, event)
        ELSE IF event.type = "LEFT_ALT" /\ release
        THEN rebase(w, event)
        ELSE IF event.type = "M" /\ release
        THEN execute([w EXCEPT !.s.creation_mode_idx = (@ + 1) % Len(creation_mode)])
        ELSE IF event.type \in {"S", "D", "A", "E"} /\ release
        THEN toggle(w, event, event.type)
        ELSE IF event.type = "V" /\ release
        THEN [w EXCEPT !.s.shading_idx = (@ + 1) % Len(shading_modes),
                       !.c.color_type =
                           shading_modes[((w.s.shading_idx + 1) % Len(shading_modes)) + 1]]
        ELSE IF event.type = "MOUSEMOVE"
        THEN mouse_move(w, event)
        ELSE w

(* add_bounding_capsule.py, lines 27-51.                                   *)
\* Lines 47-51: the P key, after lines 38-44 left w.
capsule_modifier_stack(w, event) ==
    IF raised(w) THEN w
    ELSE IF event.type = "P" /\ event.value = "RELEASE"
    THEN execute([w EXCEPT !.s.my_use_modifier_stack = ~@])
    ELSE w
\* Lines 30-51, after super().modal returned w.
capsule_settings(w, event) ==
    IF raised(w) \/ w.s.returned \in {"FINISHED", "CANCELLED", "PASS_THROUGH"} THEN w
    ELSE capsule_modifier_stack(
             IF event.type = "G" /\ event.value = "RELEASE"
             THEN execute([w EXCEPT !.s.my_space = "GLOBAL"])
             ELSE IF event.type = "L" /\ event.value = "RELEASE"
             THEN execute([w EXCEPT !.s.my_space = "LOCAL"])
             ELSE w,
             event)
capsule_modal(v, event) == capsule_settings(modal(v, event), event)

(* add_bounding_sphere.py, lines 61-80.                                    *)
\* Lines 76-80: the P key, after lines 71-73 left w.
sphere_modifier_stack(w, event) ==
    IF raised(w) THEN w
    ELSE IF event.type = "P" /\ event.value = "RELEASE"
    THEN execute([w EXCEPT !.c.my_use_modifier_stack = ~@])
    ELSE w
\* Lines 63-80, after super().modal returned w.
sphere_settings(w, event) ==
    IF raised(w) \/ w.s.returned \in {"FINISHED", "CANCELLED"} THEN w
    ELSE sphere_modifier_stack(
             IF event.type = "W" /\ event.value = "RELEASE"
             THEN execute([w EXCEPT !.s.sphere_segments_active = ~@,
                                    !.s.returned = "RUNNING_MODAL"])
             ELSE [w EXCEPT !.s.returned = "RUNNING_MODAL"],
             event)
sphere_modal(v, event) == sphere_settings(modal(v, event), event)

(* add_bounding_convex_hull.py, lines 23-37.                               *)
\* Lines 25-37, after super().modal returned w.
convex_hull_settings(w, event) ==
    IF raised(w) \/ w.s.returned \in {"FINISHED", "CANCELLED"} THEN w
    ELSE IF event.type = "P" /\ event.value = "RELEASE"
    THEN execute([w EXCEPT !.c.my_use_modifier_stack = ~@,
                           !.s.returned = "RUNNING_MODAL"])
    ELSE [w EXCEPT !.s.returned = "RUNNING_MODAL"]
convex_hull_modal(v, event) == convex_hull_settings(modal(v, event), event)

(* Lines 821-841 and 851-936: __init__ and invoke; the subclass sets       *)
(* use_decimation (add_bounding_convex_hull.py, line 16).                  *)
invoke(kind, ctx, selected_objects, event) ==
    LET dict == collision_dictionary(<<1, 2>>, <<0, 1>>, <<1, 1>>, 16, 8)
        s == [kind |-> kind, exception |-> "", returned |-> "RUNNING_MODAL",
              is_mesh_to_collider |-> FALSE, use_decimation |-> kind = "convex_hull",
              vertex_count |-> 8, ignore_input |-> FALSE, my_space |-> "",
              navigation |-> FALSE, selected_objects |-> selected_objects,
              obj_mode |-> ctx.mode, mouse_initial_x |-> event.mouse_x,
              my_use_modifier_stack |-> FALSE,
              displace_active |-> FALSE, displace_modifiers |-> <<>>,
              decimate_active |-> FALSE, decimate_modifiers |-> <<>>,
              opacity_active |-> FALSE, vertex_count_active |-> FALSE,
              sphere_segments_active |-> FALSE,
              color_type |-> ctx.color_type, shading_idx |-> 0, creation_mode_idx |-> 0,
              new_colliders_list |-> <<>>,
              current_settings_dic |-> dict, ref_settings_dic |-> dict,
              t0 |-> 0, old_objs |-> {}, collider_data |-> <<>>, called |-> <<>>]
        c == IF ctx.shading_type = "SOLID"
             THEN [ctx EXCEPT !.color_type = shading_modes[1]] ELSE ctx
    IN  execute([s |-> s, c |-> c])

Contexts ==
    [shading_type : {"SOLID", "WIREFRAME"}, color_type : {"TEXTURE"},
     mode : {"OBJECT", "EDIT"}, my_use_modifier_stack : {FALSE},
     objects : {{}}, modifiers : {{}}, events : {0}]

\* The state of the session after a handler returned.
Status(w) ==
    IF raised(w) THEN "raised"
    ELSE IF w.s.returned = "FINISHED" THEN "finished"
    ELSE IF w.s.returned = "CANCELLED" THEN "cancelled"
    ELSE "running"

\* The session the window manager keeps after invoke returned w.
Started(w) ==
    /\ self' = [status |-> Status(w)] @@ w.s
    /\ context' = w.c
Invoke ==
    /\ self.status = "idle"
    /\ \E kind \in Kinds, ctx \in Contexts, selected_objects \in Selections :
          Started(invoke(kind, ctx, selected_objects, [mouse_x |-> 0]))
    /\ UNCHANGED <<builder_vars, fitter_vars>>

Handle(kind, w) ==
    /\ self' = [w.s EXCEPT !.status = Status(w)]
    /\ context' = [w.c EXCEPT !.events = @ + 1]
    /\ UNCHANGED <<builder_vars, fitter_vars>>

Delivered(kind) ==
    self.status = "running" /\ self.kind = kind /\ context.events < MaxEvents

CapsuleModal ==
    /\ Delivered("capsule")
    /\ \E event \in Events : Handle("capsule", capsule_modal([s |-> self, c |-> context], event))
SphereModal ==
    /\ Delivered("sphere")
    /\ \E event \in Events : Handle("sphere", sphere_modal([s |-> self, c |-> context], event))
ConvexHullModal ==
    /\ Delivered("convex_hull")
    /\ \E event \in Events :
          Handle("convex_hull", convex_hull_modal([s |-> self, c |-> context], event))

OperatorNext == Invoke \/ CapsuleModal \/ SphereModal \/ ConvexHullModal
OperatorSpec == Init /\ [][OperatorNext]_vars

Invoked == self.status # "idle"


\* C23: in the capsule operator's execute every collected point set is
\* fitted, built and assembled in that order and adds exactly one collider:
\* the execute completes, its steps are fit, build, assemble for each point
\* set, and new_colliders_list has one collider for each point set.
RECURSIVE Repeated(_, _)
Repeated(steps, n) == IF n = 0 THEN <<>> ELSE steps \o Repeated(steps, n - 1)
C23_FitBuildAssemble ==
    (Invoked /\ self.kind = "capsule" /\ Len(self.collider_data) > 0) =>
        /\ self.exception = ""
        /\ self.called = Repeated(<<"fit", "build", "assemble">>, Len(self.collider_data))
        /\ Len(self.new_colliders_list) = Len(self.collider_data)
\* The case of C23: a point set was collected and the fitter was called.
C23_PointSetFitted ==
    /\ Invoked /\ self.kind = "capsule" /\ Len(self.collider_data) = 1
    /\ self.called = <<"fit">> /\ self.exception = "ValueError"
    /\ Len(self.collider_data[1].verts_loc) = 2 /\ self.new_colliders_list = <<>>


LiveFlags ==
    <<self.opacity_active, self.displace_active, self.decimate_active,
      self.vertex_count_active, self.sphere_segments_active>>
ActiveFlags == {k \in DOMAIN LiveFlags : LiveFlags[k]}
Ignored(v, w) ==
    /\ ~raised(w) /\ w.s.returned = "RUNNING_MODAL" /\ w.s.ignore_input
    /\ w.s.my_space = v.s.my_space
    /\ w.s.my_use_modifier_stack = v.s.my_use_modifier_stack
    /\ w.s.opacity_active = v.s.opacity_active
    /\ w.s.displace_active = v.s.displace_active
    /\ w.s.decimate_active = v.s.decimate_active
    /\ w.s.vertex_count_active = v.s.vertex_count_active
    /\ w.s.sphere_segments_active = v.s.sphere_segments_active
    /\ w.s.current_settings_dic = v.s.current_settings_dic
    /\ w.s.ref_settings_dic = v.s.ref_settings_dic
    /\ w.s.new_colliders_list = v.s.new_colliders_list
    /\ w.s.t0 = v.s.t0
\* C28: while Alt is held the capsule operator's modal ignores every event,
\* whatever its type: it returns RUNNING_MODAL, sets ignore_input, leaves
\* my_space, my_use_modifier_stack, the live-parameter flags, the settings
\* dictionaries and new_colliders_list unchanged and does not call execute.
C28_AltIgnored ==
    (self.status = "running" /\ self.kind = "capsule") =>
        \A event \in Events :
            event.alt => Ignored([s |-> self, c |-> context],
                                 capsule_modal([s |-> self, c |-> context], event))


operator_modal(v, event) ==
    CASE v.s.kind = "capsule" -> capsule_modal(v, event)
      [] v.s.kind = "sphere" -> sphere_modal(v, event)
      [] v.s.kind = "convex_hull" -> convex_hull_modal(v, event)
\* The session w ended cancelled: nothing it created is left and the
\* shading is the one saved at invoke.
CancelledClean(w) ==
    /\ Status(w) = "cancelled"
    /\ w.c.objects = {} /\ w.c.modifiers = {}
    /\ w.c.color_type = w.s.color_type
\* The session w ended finished with exactly the colliders of the last
\* generation.
FinishedWithLast(w) ==
    /\ Status(w) = "finished"
    /\ w.c.objects = Range(w.s.new_colliders_list)
    /\ \A o \in w.c.objects : o[1] = w.s.t0
CancelEvents == {e \in Events : e.type \in {"RIGHTMOUSE", "ESC"} /\ ~e.alt}
ConfirmEvents == {e \in Events : e.type \in {"LEFTMOUSE", "RET"} /\ ~e.alt}
====
